---- MODULE Spec2Model ----
(***************************************************************************)
(* Model of the bun-mococa authentication core: the Redis-backed session   *)
(* manager, the authentication middleware in front of the private routes,  *)
(* the payment ledger that shares the same Redis client, and the OAuth     *)
(* authorization-code handshake.                                           *)
(*                                                                         *)
(* Time is counted in milliseconds from a whole-second origin.  A request  *)
(* is suspended at each `await` of a Redis command; the command itself is  *)
(* executed by Redis atomically, in the order the commands are issued.     *)
(***************************************************************************)
EXTENDS Integers, Sequences, FiniteSets, TLC

VARIABLES
    now,        \* Date.now(), shared by the server and Redis
    ticks,      \* number of clock advances so far
    store,      \* Redis: key -> [val: stored text, pexp: expiry in ms or NoExpiry]
    hist,       \* history: session id -> the arguments createSession was given
    loggedOut,  \* history: session ids for which deleteSession has completed
    payments,   \* the payment provider: payment id -> [status, expiresAt]
    abacate,    \* the Abacate service: store() calls and poll() invocations in flight
    audit,      \* history: what store() wrote and what poll() pushed to its lists
    req,        \* the in-flight private requests
    env,        \* process.env: provider -> [clientId, clientSecret]
    jar,        \* each caller's cookies: name -> [val, expires]
    issued,     \* history: the handshake getAuthUrl last issued to each caller
    uuids,      \* number of values crypto.randomUUID has returned
    wire,       \* the provider requests the last callback issued
    resp,       \* the last response of an OAuth route
    exch,       \* the last call of exchangeCodeForProfile: the providers' answers
                \* and what the call returned
    notifier    \* the Notifier: its Discord channel, the console and the last notify

vars == <<now, ticks, store, hist, loggedOut, payments, abacate, audit, req,
          env, jar, issued, uuids, wire, resp, exch, notifier>>

\* the state of the OAuth handshakes and of the notifier
oauthVars == <<env, jar, issued, uuids, wire, resp, exch, notifier>>

(* ------------------------------ bounds -------------------------------- *)

MaxSessions == 1
MaxPayments == 1
MaxTicks == 2
RaceTicks == 1

(* ---------------------------- constants ------------------------------- *)

MsPerSec == 1000
SessionTTL == 24 * 60 * 60 * 1000
QrExpiresIn == 60 * 60 * 24 * 5
NoExpiry == 0 - 1

StartTimes == {999}
Deltas == {1, SessionTTL}

Undefined == "undefined"
UserIds == {"u1", "u2"}
Roles == {"admin", "user"}
Statuses == {"active", "inactive", "banned"}

\* the (userId, role, status) triples the identity store hands to createSession
Accounts ==
    {<<"u1", "user", Undefined>>, <<"u2", "admin", "banned">>}
RaceAccounts == {<<"u1", "user", Undefined>>, <<"u2", "admin", "inactive">>}

SessNs == "sess"
LedgerNs == "abacate:payments"
ForeignKey == <<"motd", 0>>

\* `sess:${id}`: the ids generateSessionId draws
SessionIds == {<<SessNs, n>> : n \in 1..MaxSessions}
\* `abacate:payments:${id}`
LedgerKeyOf(p) == <<LedgerNs, p>>
PayIds == 1..MaxPayments
\* the payment whose ledger key the gate is probed with
GatePayId == CHOOSE p \in PayIds : \A q \in PayIds : p <= q
LedgerKeys == {LedgerKeyOf(p) : p \in PayIds}
\* a well-formed session id that was never issued
BogusToken == <<SessNs, 0>>
Keys == SessionIds \cup LedgerKeys \cup {ForeignKey}
Tokens == Keys \cup {BogusToken}

(* --------------------------- JSON and objects -------------------------- *)

FieldOrder == <<"userId", "role", "status", "id", "code", "exp">>
FieldNames == {FieldOrder[i] : i \in DOMAIN FieldOrder}

\* a stored text that is not JSON
ForeignText == <<<<"#", "#">>>>

IsJSON(text) == \A i \in DOMAIN text : text[i][1] \in FieldNames

JSONstringify(obj) ==
    LET fs == SelectSeq(FieldOrder, LAMBDA f : f \in DOMAIN obj)
    IN  [i \in 1..Len(fs) |-> <<fs[i], obj[fs[i]]>>]

JSONparse(text) ==
    [f \in {text[i][1] : i \in DOMAIN text} |->
        text[CHOOSE i \in DOMAIN text : text[i][1] = f][2]]

Null == [null |-> TRUE]

Field(obj, f) == IF f \in DOMAIN obj THEN obj[f] ELSE Undefined
HasExp(obj) == "exp" \in DOMAIN obj

(* ------------------------------- Redis -------------------------------- *)

Live(st, t) == {k \in DOMAIN st : st[k].pexp = NoExpiry \/ t <= st[k].pexp}

\* keys whose expiry has passed are gone
Purge(st, t) == [k \in Live(st, t) |-> st[k]]

RedisSet(st, k, text, pexp) ==
    [x \in DOMAIN st \cup {k} |-> IF x = k THEN [val |-> text, pexp |-> pexp] ELSE st[x]]

RedisDel(st, k) == [x \in DOMAIN st \ {k} |-> st[x]]

\* SET key value EXAT seconds
ExatMs(seconds) == seconds * MsPerSec
\* SET key value EX seconds
ExMs(t, seconds) == t + seconds * MsPerSec

(* --------------------------- SessionManager --------------------------- *)

ExpOf(t) == t + SessionTTL

\* mutant: Math.ceil in place of Math.floor
ExatCeil(exp) == (exp + MsPerSec - 1) \div MsPerSec

ExatOf(exp) == exp \div MsPerSec

\* mutant: the status is stored as given, an omitted one is not defaulted
SessionDataNoDefault(userId, role, status, t) ==
    IF status = Undefined
    THEN [userId |-> userId, role |-> role, exp |-> t + SessionTTL]
    ELSE [userId |-> userId, role |-> role, status |-> status, exp |-> t + SessionTTL]

SessionData(userId, role, status, t) ==
    [userId |-> userId, role |-> role,
     status |-> IF status = Undefined THEN "active" ELSE status,
     exp |-> ExpOf(t)]

\* the body of getSession's try block: [threw, data]
GetSessionTry(st, up, k) ==
    IF ~up THEN [threw |-> TRUE, data |-> Null]
    ELSE IF k \notin DOMAIN st THEN [threw |-> FALSE, data |-> Null]
    ELSE IF ~IsJSON(st[k].val) THEN [threw |-> TRUE, data |-> Null]
    ELSE [threw |-> FALSE, data |-> JSONparse(st[k].val)]

\* mutant: no try/catch around the read and the parse
GetSessionNoCatch(st, up, k) ==
    LET t == GetSessionTry(st, up, k)
    IN  [raised |-> t.threw, found |-> ~t.threw /\ t.data # Null, data |-> t.data]

GetSessionAt(st, up, k) ==
    LET t == GetSessionTry(st, up, k)
    IN  IF t.threw THEN [raised |-> FALSE, found |-> FALSE, data |-> Null]
        ELSE [raised |-> FALSE, found |-> t.data # Null, data |-> t.data]

\* getSession while Redis answers (up) or fails (~up)
GetSession(k, up) == GetSessionAt(store, up, k)

\* the write of createSession and of refreshSession
SessionWrite(st, k, obj) ==
    RedisSet(st, k, JSONstringify(obj), ExatMs(ExatOf(obj.exp)))

\* an object without its field f
Without(obj, f) == [g \in DOMAIN obj \ {f} |-> obj[g]]

\* mutant: the new exp is the current time, without the 24 hours
RefreshedNoTTL(obj, t) ==
    [f \in DOMAIN obj \cup {"exp"} |-> IF f = "exp" THEN t ELSE obj[f]]

\* mutant: the refresh also re-activates the session
RefreshedResetStatus(obj, t) ==
    [f \in DOMAIN obj \cup {"exp", "status"} |->
        IF f = "exp" THEN t + SessionTTL ELSE IF f = "status" THEN "active" ELSE obj[f]]

Refreshed(obj, t) ==
    [f \in DOMAIN obj \cup {"exp"} |-> IF f = "exp" THEN ExpOf(t) ELSE obj[f]]

(* ------------------------- payment ledger write ------------------------ *)

Payment(p) == [id |-> p, code |-> <<"brCode", p>>]

\* mutant: the SET carries no EX
LedgerStoreNoExpiry(st, t, p, data, expiresIn) ==
    RedisSet(st, LedgerKeyOf(p), JSONstringify(data), NoExpiry)

\* Abacate.store: SET abacate:payments:<id> <json> EX expiresIn
LedgerStore(st, t, p, data, expiresIn) ==
    RedisSet(st, LedgerKeyOf(p), JSONstringify(data), ExMs(t, expiresIn))

(* --------------------------- private requests -------------------------- *)

Conns == {"r1", "r2"}
Routes == {"logout", "other"}

NoToken == <<"", 0>>

\* the Authorization header: absent, or "Bearer <cred>", or "<cred>" alone
Headers ==
    [present : {TRUE}, bearer : BOOLEAN, cred : Tokens \cup {NoToken}]
        \cup {[present |-> FALSE, bearer |-> FALSE, cred |-> NoToken]}

\* headers['authorization']?.replace('Bearer ', '')
TokenOf(h) == IF h.present THEN h.cred ELSE NoToken

ErrNoToken == "401:No session token provided"
ErrInvalid == "401:Invalid or expired session"
ErrBanned == "403:Your account has been banned. Please contact support."
Pass == "pass"

\* mutant: authMiddleware goes on when getSession returns nothing
AuthCheckAbsentPasses(st, up, tok) ==
    LET g == GetSessionAt(st, up, tok)
    IN  IF tok = NoToken THEN ErrNoToken
        ELSE IF g.found /\ Field(g.data, "status") = "banned" THEN ErrBanned
        ELSE Pass

\* authMiddleware up to the call of refreshSession: what it throws, or Pass
AuthCheckAt(st, up, tok) ==
    LET g == GetSessionAt(st, up, tok)
    IN  IF tok = NoToken THEN ErrNoToken
        ELSE IF ~g.found THEN ErrInvalid
        ELSE IF Field(g.data, "status") = "banned" THEN ErrBanned
        ELSE Pass

AuthCheck(tok, up) == AuthCheckAt(store, up, tok)

\* effect (history): what this request's refreshSession did to the stored exp:
\* "none" (no SET), "created" (no exp was stored), "kept" (same exp), "raised"
Idle == [pc |-> "idle", tok |-> NoToken, route |-> "other", data |-> Null, rdata |-> Null,
         effect |-> "none"]

Parsed(k) == JSONparse(store[k].val)

EffectOf(k, obj) ==
    IF k \notin DOMAIN store \/ ~IsJSON(store[k].val) \/ ~HasExp(Parsed(k)) THEN "created"
    ELSE IF Parsed(k).exp < obj.exp THEN "raised" ELSE "kept"

Finish(r) == req' = [req EXCEPT ![r] = Idle]

\* the fields of sessionData that authMiddleware reads after its await
IdentityOf(obj) ==
    [userId |-> Field(obj, "userId"), role |-> Field(obj, "role"),
     status |-> Field(obj, "status")]

(* ------------------------------- OAuth --------------------------------- *)

MaxUuids == 4
OAuthTicks == 2
PairTicks == 1
GateTicks == 1
PollTicks == 2
ScanPayments == 2
FairTicks == 2

StateCookieKey == "oauth_state"
VerifierCookieKey == "oauth_pkce_verifier"
CookieExpiration == 5 * 60
CookieNames == {StateCookieKey, VerifierCookieKey}
\* the clock of the handshakes advances by half the cookie lifetime
OAuthDeltas == {(CookieExpiration * MsPerSec) \div 2}

\* enum Provider, and the values the :provider path parameter takes
Providers == {"google", "github", "discord"}
RouteProviders == Providers \cup {"facebook"}
\* the providers a handshake is started with
StartProviders == {"google", "github", "facebook"}
\* the browsers that run handshakes; none of them carries a session
Callers == {"b1", "b2"}
\* the code query parameter; a state or cookie value is a UUID, '' is 0
Codes == {"", "code1"}
QueryStates == 0..MaxUuids

ErrUnsupportedProvider == "Unsupported OAuth provider."
ErrMissingCodeOrState == "Missing code or state in OAuth callback"
ErrNotConfigured == "OAuth provider not configured"
ErrInvalidState == "Invalid state parameter"
ErrMissingVerifier == "Missing PKCE verifier"
ErrUnsupported == "Unsupported provider"
ErrGitHubEmail == "Email not available from GitHub profile"
ErrDiscordUnverified == "Discord email not verified"
ErrTypeError == "TypeError"
ErrRedis == "Redis command failed"

\* process.env with the client ids of ids and the client secrets of secrets
EnvOf(ids, secrets) ==
    [p \in Providers |->
        [clientId |-> IF p \in ids THEN "client-id" ELSE Undefined,
         clientSecret |-> IF p \in secrets THEN "client-secret" ELSE ""]]
FullEnv == EnvOf(Providers, Providers)
\* every credential set, or GitHub's id and Discord's secret missing
Envs == {FullEnv, EnvOf(Providers \ {"github"}, Providers \ {"discord"})}

Truthy(v) == v # Undefined /\ v # ""

\* mutant: a provider is registered as soon as its client id is set
ConfigsIdOnly(e) == {p \in Providers : Truthy(e[p].clientId)}

\* the providers the Auth constructor registers with the OAuthManager
Configs(e) ==
    {p \in Providers : Truthy(e[p].clientId) /\ Truthy(e[p].clientSecret)}

NoCookie == [val |-> 0, expires |-> 0]
NoCookies == [n \in CookieNames |-> NoCookie]
NoHandshake == [provider |-> "", state |-> 0, verifier |-> 0, expires |-> 0, url |-> Null]

\* setCookie(name, value, {maxAge: exp, expires: Date.now() + exp * 1000})
\* mutant: a cookie that is already set is kept
SetCookieKeepFirst(cookies, t, name, value, exp) ==
    IF cookies[name].val # 0 THEN cookies
    ELSE [cookies EXCEPT ![name] = [val |-> value, expires |-> t + exp * MsPerSec]]

SetCookie(cookies, t, name, value, exp) ==
    [cookies EXCEPT ![name] = [val |-> value, expires |-> t + exp * MsPerSec]]

\* mutant: a cookie is sent whatever its expiry
GetCookieNoExpiry(cookies, t, name) == cookies[name].val

\* String(cookie[name].value || ''): the browser sends a cookie until it expires
GetCookie(cookies, t, name) ==
    IF cookies[name].val # 0 /\ t < cookies[name].expires THEN cookies[name].val
    ELSE 0

\* base64url(SHA-256(verifier)): one challenge per verifier
GenerateCodeChallenge(verifier) == <<"S256", verifier>>

\* mutant: the challenge is made from the state, not from the verifier
AuthUrlChallengeOfState(provider, state, verifier) ==
    [provider |-> provider, response_type |-> "code", state |-> state,
     code_challenge_method |-> "S256",
     code_challenge |-> GenerateCodeChallenge(state)]

\* the query of the authorization URL
AuthUrl(provider, state, verifier) ==
    [provider |-> provider, response_type |-> "code", state |-> state,
     code_challenge_method |-> "S256",
     code_challenge |-> GenerateCodeChallenge(verifier)]

\* the state issued to c for its in-flight attempt, 0 when there is none
IssuedState(c) ==
    IF now < issued[c].expires THEN issued[c].state ELSE 0

\* what the providers may answer: the token response, the profile and, for
\* GitHub, the e-mail list
ErrorBody == [message |-> "Bad credentials"]
TokenBody == [access_token |-> "at-1"]
NoEmails == [array |-> TRUE, items |-> <<>>]
GoogleReplies ==
    {[tokens |-> TokenBody, emails |-> NoEmails,
      profile |-> [sub |-> "g-1", name |-> "Ann", email |-> "ann@g", picture |-> "g.png"]],
     [tokens |-> ErrorBody, emails |-> NoEmails, profile |-> ErrorBody]}
GitHubReplies ==
    {[tokens |-> TokenBody, emails |-> NoEmails,
      profile |-> [id |-> 42, name |-> "Ann", login |-> "ann", email |-> "ann@h",
                   avatar_url |-> "h.png"]],
     [tokens |-> TokenBody,
      emails |-> [array |-> TRUE,
                  items |-> <<[email |-> "old@h", primary |-> FALSE],
                              [email |-> "ann@h", primary |-> TRUE]>>],
      profile |-> [id |-> 7, login |-> "ann", avatar_url |-> "h.png"]],
     [tokens |-> TokenBody,
      emails |-> [array |-> TRUE, items |-> <<[email |-> "old@h", primary |-> FALSE]>>],
      profile |-> [id |-> 7, name |-> "", login |-> "ann", email |-> "",
                   avatar_url |-> "h.png"]],
     [tokens |-> TokenBody, emails |-> NoEmails,
      profile |-> [id |-> 7, login |-> "ann", avatar_url |-> "h.png"]],
     [tokens |-> ErrorBody, emails |-> [array |-> FALSE, items |-> <<>>],
      profile |-> ErrorBody]}
DiscordReplies ==
    {[tokens |-> TokenBody, emails |-> NoEmails,
      profile |-> [id |-> "d-1", username |-> "ann", email |-> "ann@d",
                   verified |-> TRUE, avatar |-> "a1"]],
     [tokens |-> TokenBody, emails |-> NoEmails,
      profile |-> [id |-> "d-1", username |-> "ann", email |-> "ann@d",
                   verified |-> TRUE]],
     [tokens |-> TokenBody, emails |-> NoEmails,
      profile |-> [id |-> "d-1", username |-> "ann", email |-> "ann@d",
                   verified |-> FALSE, avatar |-> "a1"]],
     [tokens |-> ErrorBody, emails |-> NoEmails, profile |-> ErrorBody]}
NoReply == [tokens |-> ErrorBody, emails |-> NoEmails, profile |-> ErrorBody]
Replies(provider) ==
    IF provider = "google" THEN GoogleReplies
    ELSE IF provider = "github" THEN GitHubReplies
    ELSE IF provider = "discord" THEN DiscordReplies
    ELSE {NoReply}

Has(obj, f) == f \in DOMAIN obj
\* !obj[f], for a field that holds a string when it is there
Falsy(obj, f) == ~Has(obj, f) \/ obj[f] = ""

Digits == <<"0", "1", "2", "3", "4", "5", "6", "7", "8", "9">>
RECURSIVE NumberToString(_)
\* Number.prototype.toString of a natural number
NumberToString(n) ==
    IF n < Len(Digits) THEN Digits[n + 1]
    ELSE NumberToString(n \div Len(Digits)) \o Digits[(n % Len(Digits)) + 1]

Failure(error, requests) == [error |-> error, requests |-> requests, user |-> Null]
Success(user, requests) == [error |-> "", requests |-> requests, user |-> user]

\* fetchUser: the token request, then the profile request
TokenRequest(provider, code, verifier) ==
    [endpoint |-> "token", provider |-> provider, code |-> code,
     code_verifier |-> verifier, bearer |-> Undefined]
UserRequest(provider, tokens) ==
    [endpoint |-> "user", provider |-> provider, code |-> "", code_verifier |-> 0,
     bearer |-> Field(tokens, "access_token")]
EmailsRequest(tokens) ==
    [endpoint |-> "emails", provider |-> "github", code |-> "", code_verifier |-> 0,
     bearer |-> Field(tokens, "access_token")]
FetchUser(provider, code, verifier, reply) ==
    <<TokenRequest(provider, code, verifier), UserRequest(provider, reply.tokens)>>

HandleGoogleOAuth(code, verifier, reply) ==
    LET profile == reply.profile
    IN  Success([id |-> Field(profile, "sub"), name |-> Field(profile, "name"),
                 email |-> Field(profile, "email"),
                 picture |-> Field(profile, "picture"), provider |-> "google"],
                FetchUser("google", code, verifier, reply))

\* mutant: emails[0], whatever is flagged primary
PrimaryEmailFirst(items) ==
    IF items # <<>> THEN items[1].email ELSE Undefined

\* emails.find(e => e.primary) || emails[0]
PrimaryEmail(items) ==
    LET prim == SelectSeq(items, LAMBDA e : e.primary)
    IN  IF prim # <<>> THEN prim[1].email
        ELSE IF items # <<>> THEN items[1].email ELSE Undefined

HandleGitHubOAuth(code, verifier, reply) ==
    LET profile == reply.profile
        fetched == FetchUser("github", code, verifier, reply)
        asked == Falsy(profile, "email")
        requests == IF asked THEN Append(fetched, EmailsRequest(reply.tokens))
                    ELSE fetched
        email == IF asked THEN PrimaryEmail(reply.emails.items) ELSE profile.email
    IN  IF asked /\ ~reply.emails.array THEN Failure(ErrTypeError, requests)
        ELSE IF ~Truthy(email) THEN Failure(ErrGitHubEmail, requests)
        ELSE IF ~Has(profile, "id") THEN Failure(ErrTypeError, requests)
        ELSE Success([id |-> NumberToString(profile.id),
                      name |-> IF Falsy(profile, "name") THEN Field(profile, "login")
                               ELSE profile.name,
                      email |-> email, picture |-> Field(profile, "avatar_url"),
                      provider |-> "github"], requests)

\* mutant: the verified flag is not looked at
HandleDiscordOAuthUnchecked(code, verifier, reply) ==
    LET profile == reply.profile
        requests == FetchUser("discord", code, verifier, reply)
    IN  Success([id |-> Field(profile, "id"), name |-> Field(profile, "username"),
                 email |-> Field(profile, "email"),
                 picture |-> IF Falsy(profile, "avatar") THEN Undefined
                             ELSE "https://cdn.discordapp.com/avatars/"
                                  \o profile.id \o "/" \o profile.avatar \o ".png",
                 provider |-> "discord"], requests)

HandleDiscordOAuth(code, verifier, reply) ==
    LET profile == reply.profile
        requests == FetchUser("discord", code, verifier, reply)
    IN  IF ~Has(profile, "verified") \/ ~profile.verified
        THEN Failure(ErrDiscordUnverified, requests)
        ELSE Success([id |-> Field(profile, "id"), name |-> Field(profile, "username"),
                      email |-> Field(profile, "email"),
                      picture |-> IF Falsy(profile, "avatar") THEN Undefined
                                  ELSE "https://cdn.discordapp.com/avatars/"
                                       \o profile.id \o "/" \o profile.avatar \o ".png",
                      provider |-> "discord"], requests)

\* the provider switch of exchangeCodeForProfile
HandleOAuth(provider, code, verifier, reply) ==
    IF provider = "google" THEN HandleGoogleOAuth(code, verifier, reply)
    ELSE IF provider = "github" THEN HandleGitHubOAuth(code, verifier, reply)
    ELSE IF provider = "discord" THEN HandleDiscordOAuth(code, verifier, reply)
    ELSE Failure(ErrUnsupported, <<>>)

\* mutant: the verifier is looked at before the state
ExchangeVerifierFirst(cfgs, provider, code, state, cookies, t, reply) ==
    LET storedState == GetCookie(cookies, t, StateCookieKey)
        verifier == GetCookie(cookies, t, VerifierCookieKey)
    IN  IF provider \notin cfgs THEN Failure(ErrNotConfigured, <<>>)
        ELSE IF verifier = 0 THEN Failure(ErrMissingVerifier, <<>>)
        ELSE IF state # storedState THEN Failure(ErrInvalidState, <<>>)
        ELSE HandleOAuth(provider, code, verifier, reply)

\* mutant: an empty verifier is sent on to the token endpoint
ExchangeAnyVerifier(cfgs, provider, code, state, cookies, t, reply) ==
    LET storedState == GetCookie(cookies, t, StateCookieKey)
        verifier == GetCookie(cookies, t, VerifierCookieKey)
    IN  IF provider \notin cfgs THEN Failure(ErrNotConfigured, <<>>)
        ELSE IF state # storedState THEN Failure(ErrInvalidState, <<>>)
        ELSE HandleOAuth(provider, code, verifier, reply)

ExchangeCodeForProfile(cfgs, provider, code, state, cookies, t, reply) ==
    LET storedState == GetCookie(cookies, t, StateCookieKey)
        verifier == GetCookie(cookies, t, VerifierCookieKey)
    IN  IF provider \notin cfgs THEN Failure(ErrNotConfigured, <<>>)
        ELSE IF state # storedState THEN Failure(ErrInvalidState, <<>>)
        ELSE IF verifier = 0 THEN Failure(ErrMissingVerifier, <<>>)
        ELSE HandleOAuth(provider, code, verifier, reply)

\* GET /auth/oauth/callback/:provider up to the call of createSession
CallbackHandler(cfgs, provider, code, state, cookies, t, reply) ==
    IF provider \notin Providers THEN Failure(ErrUnsupportedProvider, <<>>)
    ELSE IF code = "" \/ state = 0 THEN Failure(ErrMissingCodeOrState, <<>>)
    ELSE ExchangeCodeForProfile(cfgs, provider, code, state, cookies, t, reply)

\* the userId and role the callback handler gives createSession
DummyUserId == "1"
NoResponse == [caller |-> "", error |-> "", sessionId |-> NoToken]
NoExchange == [called |-> FALSE, provider |-> "", reply |-> NoReply,
               result |-> Failure("", <<>>)]
Rejected(c, error) == [NoResponse EXCEPT !.caller = c, !.error = error]

(* ------------------------------ actions -------------------------------- *)

\* the state after construction, the OAuth providers registered from e
(* ----------------------------- notifier -------------------------------- *)

MaxNotes == 3

\* the paths of the messages table
MessagePaths == {"payments.success", "payments.failure", "users.registration",
                 "system.error"}

\* messages[category][type]: the message creator, a function
Creator(path) ==
    [kind |-> "function",
     name |-> IF path = "payments.success" THEN "createPaymentSuccessMessage"
              ELSE IF path = "payments.failure" THEN "createPaymentFailureMessage"
              ELSE IF path = "users.registration" THEN "createUserRegistrationMessage"
              ELSE "createErrorMessage"]

\* value[1]: the second element of a tuple; a function has no property 1
IndexOne(value) == IF value.kind = "tuple" THEN value.items[2] ELSE Undefined

\* getMessage(path), for a path of the table
GetMessage(path) == IndexOne(Creator(path))

\* creator(data): the NotificationMessage
Built(creator, data) == [title |-> creator.name, content |-> data]

\* the data notify is given
NoteData == {"d1"}

\* the Discord channel of the Notifier: none given to the constructor, or a
\* DiscordNotifier that is logging in, or one whose client is ready
Channels == {"none", "connecting", "ready"}

NoOutcome == [path |-> "", data |-> "", channel |-> "none", raised |-> FALSE,
              message |-> Null, dispatched |-> FALSE]
NoNotifier == [discord |-> "none", console |-> <<>>, sent |-> <<>>, calls |-> 0,
               out |-> NoOutcome]

\* DiscordNotifier.sendMessage: ok is whether channels.fetch and channel.send
\* succeed
SendMessage(n, message, ok) ==
    IF n.discord # "ready"
    THEN [n EXCEPT !.console = Append(@, <<"warn", "Discord notifier not ready or configured">>)]
    ELSE IF ~ok
    THEN [n EXCEPT !.console = Append(@, <<"error", "Error sending Discord message:">>)]
    ELSE [n EXCEPT !.sent = Append(@, message)]

\* Notifier.notify(path, data)
Notify(n, path, data, ok) ==
    LET notificationMessage == GetMessage(path)
        called == [n EXCEPT !.calls = @ + 1]
        out == [NoOutcome EXCEPT !.path = path, !.data = data, !.channel = n.discord]
    IN  IF notificationMessage = Undefined
        THEN [called EXCEPT !.console = Append(@, <<"warn", "Notification message not found for path:", path>>),
                            !.out = out]
        ELSE LET message == Built(notificationMessage, data)
             IN  IF n.discord # "none"
                 THEN [SendMessage(called, message, ok) EXCEPT
                          !.out = [out EXCEPT !.message = message, !.dispatched = TRUE]]
                 ELSE [called EXCEPT !.console = Append(@, <<"log", "[NOTIFICATION]">>),
                                     !.out = [out EXCEPT !.message = message]]

(* ------------------------------- poll ----------------------------------- *)

Pollers == {"p1", "p2"}
ProviderStatuses == {"PENDING", "PAID", "EXPIRED", "CANCELLED", "REFUNDED"}
\* mutant: REFUNDED is not in the list of failed statuses
FailedStatusesNoRefund == {"EXPIRED", "CANCELLED"}
FailedStatuses == {"EXPIRED", "CANCELLED", "REFUNDED"}
PollDeltas == {1, QrExpiresIn * MsPerSec}

\* a poll() that is not running; successes and failures are what it last returned
PollIdle == [pc |-> "idle", keys |-> {}, key |-> NoToken, payment |-> Null,
             successes |-> <<>>, failures |-> <<>>, pending |-> <<>>, raised |-> FALSE,
             logged |-> 0]

NoWork == [storing |-> {}, polls |-> [i \in Pollers |-> PollIdle]]

\* recorded: the ids store() has written; reported: the <<id, list>> pairs poll
\* has pushed; again: the ids poll has pushed more than once; polled: a poll has
\* returned, with no error caught, since the clock last advanced; lazy: the
\* clock has advanced during a poll, or twice with no such poll in between
NoAudit == [recorded |-> {}, reported |-> {}, again |-> {}, polled |-> FALSE,
            lazy |-> FALSE]

\* mutant: poll looks at PAID before it looks at the expiry
ClassifyPaidFirst(status, expiresAt, t) ==
    IF status \in FailedStatuses THEN "failure"
    ELSE IF status = "PAID" THEN "success"
    ELSE IF t > expiresAt THEN "failure"
    ELSE "pending"

\* mutant: poll does not look at the expiry
ClassifyNoExpiry(status, expiresAt, t) ==
    IF status \in FailedStatuses THEN "failure"
    ELSE IF status # "PAID" THEN "pending"
    ELSE "success"

\* mutant: poll gives up on whatever is not PAID
ClassifyPendingFails(status, expiresAt, t) ==
    IF status \in FailedStatuses THEN "failure"
    ELSE IF t > expiresAt THEN "failure"
    ELSE IF status # "PAID" THEN "failure"
    ELSE "success"

\* poll's verdict on what checkQRStatus returned, at Date.now() = t
Classify(status, expiresAt, t) ==
    IF status \in FailedStatuses THEN "failure"
    ELSE IF t > expiresAt THEN "failure"
    ELSE IF status # "PAID" THEN "pending"
    ELSE "success"

\* redis.keys('abacate:payments:*')
ScanKeys(st) == {k \in DOMAIN st : k[1] = LedgerNs}

\* the for loop goes on to the next key, or poll returns
Advance(w) ==
    IF w.keys = {} THEN [w EXCEPT !.pc = "idle", !.key = NoToken, !.payment = Null]
    ELSE [w EXCEPT !.pc = "get", !.key = NoToken, !.payment = Null]

\* mutant: the error ends the scan
CaughtAborts(w) == [w EXCEPT !.pc = "idle", !.keys = {}, !.key = NoToken,
                             !.payment = Null, !.logged = @ + 1]

\* the catch of the loop body: console.error, then the next key
Caught(w) == Advance([w EXCEPT !.logged = @ + 1])

InitAs(e, n) ==
    /\ now \in StartTimes
    /\ ticks = 0
    /\ store = [k \in {ForeignKey} |-> [val |-> ForeignText, pexp |-> NoExpiry]]
    /\ hist = [k \in {} |-> Null]
    /\ loggedOut = {}
    /\ payments = [p \in {} |-> Null]
    /\ abacate = NoWork
    /\ audit = NoAudit
    /\ req = [r \in Conns |-> Idle]
    /\ env = e
    /\ jar = [c \in Callers |-> NoCookies]
    /\ issued = [c \in Callers |-> NoHandshake]
    /\ uuids = 0
    /\ wire = <<>>
    /\ resp = NoResponse
    /\ exch = NoExchange
    /\ notifier = n

InitWith(e) == InitAs(e, NoNotifier)

Init == InitWith(FullEnv)

\* generateSessionId returns an id no session was given before: the next one
FreshIds == {id \in SessionIds : id[2] = Cardinality(DOMAIN hist) + 1}

\* createSession writing a session under a newly generated id
CreateSessionAs(id, userId, role, status) ==
    LET obj == SessionData(userId, role, status, now)
    IN  /\ store' = SessionWrite(store, id, obj)
        /\ hist' = [k \in DOMAIN hist \cup {id} |->
                      IF k = id THEN [userId |-> userId, role |-> role,
                                      status |-> status]
                      ELSE hist[k]]

\* createSession, as the login handler calls it
CreateSession(userId, role, status) ==
    /\ \E id \in FreshIds : CreateSessionAs(id, userId, role, status)
    /\ UNCHANGED <<now, ticks, loggedOut, payments, abacate, audit, req, oauthVars>>

\* authMiddleware up to the call of refreshSession
AuthMiddleware(r, h, route, up) ==
    /\ req[r].pc = "idle"
    /\ LET tok == TokenOf(h)
       IN  IF AuthCheck(tok, up) # Pass THEN Finish(r)
           ELSE req' = [req EXCEPT ![r] = [pc |-> "rget", tok |-> tok, route |-> route,
                                           data |-> IdentityOf(GetSession(tok, up).data),
                                           rdata |-> Null, effect |-> "none"]]
    /\ UNCHANGED <<now, ticks, store, hist, loggedOut, payments, abacate, audit, oauthVars>>

\* mutant: refreshSession goes on to its write when the session is absent
RefreshGetNoCheck(r, up) ==
    /\ req[r].pc = "rget"
    /\ LET g == GetSession(req[r].tok, up)
       IN  req' = [req EXCEPT ![r].pc = "rset",
                              ![r].rdata = IF g.found THEN Without(g.data, "exp")
                                           ELSE [f \in {} |-> Undefined]]
    /\ UNCHANGED <<now, ticks, store, hist, loggedOut, payments, abacate, audit, oauthVars>>

\* refreshSession: the read
RefreshGet(r, up) ==
    /\ req[r].pc = "rget"
    /\ LET g == GetSession(req[r].tok, up)
       IN  IF ~g.found THEN req' = [req EXCEPT ![r].pc = "route"]
           ELSE req' = [req EXCEPT ![r].pc = "rset", ![r].rdata = Without(g.data, "exp")]
    /\ UNCHANGED <<now, ticks, store, hist, loggedOut, payments, abacate, audit, oauthVars>>

\* refreshSession: the write, then authMiddleware exposes the identity
RefreshSet(r, up) ==
    /\ req[r].pc = "rset"
    /\ IF ~up
       THEN /\ Finish(r)
            /\ UNCHANGED <<store, hist>>
       ELSE LET obj == Refreshed(req[r].rdata, now)
                k == req[r].tok
            IN  /\ store' = SessionWrite(store, k, obj)
                /\ req' = [req EXCEPT ![r].pc = "route", ![r].rdata = Null,
                                       ![r].effect = EffectOf(k, obj)]
                /\ UNCHANGED hist
    /\ UNCHANGED <<now, ticks, loggedOut, payments, abacate, audit, oauthVars>>

\* the private route: /auth/logout calls deleteSession, any other route does not
RouteHandler(r, up) ==
    /\ req[r].pc = "route"
    /\ IF req[r].route = "logout" /\ up
       THEN /\ store' = RedisDel(store, req[r].tok)
            /\ loggedOut' = loggedOut \cup {req[r].tok}
       ELSE UNCHANGED <<store, loggedOut>>
    /\ Finish(r)
    /\ UNCHANGED <<now, ticks, hist, payments, abacate, audit, oauthVars>>

\* createQR: the provider creates the payment, the ledger entry is written
CreateQR(p, up) ==
    /\ p \notin DOMAIN payments
    /\ payments' = [q \in DOMAIN payments \cup {p} |->
                      IF q = p THEN [status |-> "PENDING",
                                     expiresAt |-> ExMs(now, QrExpiresIn)]
                      ELSE payments[q]]
    /\ store' = IF up THEN LedgerStore(store, now, p, Payment(p), QrExpiresIn)
                ELSE store
    /\ UNCHANGED <<now, ticks, hist, loggedOut, abacate, audit, req, oauthVars>>

\* time passes; Redis drops the keys whose expiry has passed
Tick(d, max) ==
    /\ ticks < max
    /\ ticks' = ticks + 1
    /\ now' = now + d
    /\ store' = Purge(store, now')
    /\ UNCHANGED <<hist, loggedOut, payments, abacate, audit, req, oauthVars>>

Next ==
    \/ \E a \in Accounts : CreateSession(a[1], a[2], a[3])
    \/ \E h \in Headers, rt \in Routes, up \in BOOLEAN : AuthMiddleware("r1", h, rt, up)
    \/ \E up \in BOOLEAN : RefreshGet("r1", up)
    \/ \E up \in BOOLEAN : RefreshSet("r1", up)
    \/ \E up \in BOOLEAN : RouteHandler("r1", up)
    \/ \E up \in BOOLEAN : CreateQR(GatePayId, up)
    \/ \E d \in Deltas : Tick(d, MaxTicks)

Spec == Init /\ [][Next]_vars

\* createSession for every userId, role and status, and the clock
NextCreate ==
    \/ \E u \in UserIds, ro \in Roles, s \in Statuses \cup {Undefined} : CreateSession(u, ro, s)
    \/ \E d \in Deltas : Tick(d, MaxTicks)

SpecCreate == Init /\ [][NextCreate]_vars

\* two requests in flight at once
NextRace ==
    \/ \E a \in RaceAccounts : CreateSession(a[1], a[2], a[3])
    \/ \E r \in Conns, h \in Headers, rt \in Routes, up \in BOOLEAN : AuthMiddleware(r, h, rt, up)
    \/ \E r \in Conns, up \in BOOLEAN : RefreshGet(r, up)
    \/ \E r \in Conns, up \in BOOLEAN : RefreshSet(r, up)
    \/ \E r \in Conns, up \in BOOLEAN : RouteHandler(r, up)
    \/ \E d \in Deltas : Tick(d, RaceTicks)

SpecRace == Init /\ [][NextRace]_vars

\* GET /auth/oauth/:provider: getAuthUrl behind the handler's provider check
GetAuthUrl(c, provider) ==
    /\ IF provider \notin Providers
       THEN /\ resp' = Rejected(c, ErrUnsupportedProvider)
            /\ UNCHANGED <<jar, issued, uuids>>
       ELSE IF provider \notin Configs(env)
       THEN /\ resp' = Rejected(c, ErrNotConfigured)
            /\ UNCHANGED <<jar, issued, uuids>>
       ELSE /\ uuids + 2 <= MaxUuids
            /\ LET verifier == uuids + 1
                   state == uuids + 2
               IN  /\ uuids' = state
                   /\ jar' = [jar EXCEPT ![c] =
                                SetCookie(SetCookie(jar[c], now, StateCookieKey, state,
                                                    CookieExpiration),
                                          now, VerifierCookieKey, verifier, CookieExpiration)]
                   /\ issued' = [issued EXCEPT ![c] =
                                   [provider |-> provider, state |-> state,
                                    verifier |-> verifier,
                                    expires |-> now + CookieExpiration * MsPerSec,
                                    url |-> AuthUrl(provider, state, verifier)]]
                   /\ resp' = [NoResponse EXCEPT !.caller = c]
    /\ wire' = <<>>
    /\ UNCHANGED <<now, ticks, store, hist, loggedOut, payments, abacate, audit, req, notifier, env, exch>>

\* GET /auth/oauth/callback/:provider
OAuthCallback(c, provider, code, state, reply, up) ==
    /\ LET x == CallbackHandler(Configs(env), provider, code, state, jar[c], now, reply)
       IN  /\ wire' = x.requests
           /\ IF x.error # ""
              THEN /\ resp' = Rejected(c, x.error)
                   /\ UNCHANGED <<store, hist>>
              ELSE IF ~up
              THEN /\ resp' = Rejected(c, ErrRedis)
                   /\ UNCHANGED <<store, hist>>
              ELSE \E id \in FreshIds :
                     /\ CreateSessionAs(id, DummyUserId, "user", Undefined)
                     /\ resp' = [caller |-> c, error |-> "", sessionId |-> id]
    /\ UNCHANGED <<now, ticks, loggedOut, payments, abacate, audit, req, notifier, env, jar, issued, uuids, exch>>

\* the caller's browser discards one of its cookies
DropCookie(c, name) ==
    /\ jar[c][name].val # 0
    /\ jar' = [jar EXCEPT ![c][name] = NoCookie]
    /\ UNCHANGED <<now, ticks, store, hist, loggedOut, payments, abacate, audit, req,
                   notifier, env, issued, uuids, wire, resp, exch>>

\* the callback fails before a provider or Redis is consulted
Rejects(c, p, code, st) ==
    CallbackHandler(Configs(env), p, code, st, jar[c], now, NoReply).requests = <<>>

InitOAuth == \E e \in Envs : InitWith(e)

\* the OAuth handshakes of one caller
NextOAuth ==
    \/ \E p \in StartProviders : GetAuthUrl("b1", p)
    \/ \E p \in RouteProviders, code \in Codes, st \in QueryStates :
          IF Rejects("b1", p, code, st) THEN OAuthCallback("b1", p, code, st, NoReply, TRUE)
          ELSE \E reply \in Replies(p), up \in BOOLEAN :
                 OAuthCallback("b1", p, code, st, reply, up)
    \/ \E n \in CookieNames : DropCookie("b1", n)
    \/ \E d \in OAuthDeltas : Tick(d, OAuthTicks)

SpecOAuth == InitOAuth /\ [][NextOAuth]_vars

(* ------------------------------ claims --------------------------------- *)

\* the status createSession stores for the status it was given
StoredStatus(status) == IF status = Undefined THEN "active" ELSE status

\* this step is the SET of r's refreshSession
RefreshWrites(r) == req[r].pc = "rset" /\ req'[r].pc = "route"

\* C1: a request passes authMiddleware only if its bearer token is a session id
\* that createSession returned and that has not been logged out since; no other
\* key of the cache is accepted as a session.
C1_OnlyIssuedSessionsAuthenticate ==
    \A r \in Conns :
        req[r].pc # "idle" => (req[r].tok \in DOMAIN hist /\ req[r].tok \notin loggedOut)

\* C2: getSession right after createSession(userId, role, status) returns that
\* userId and role, the status (or "active" when it was omitted) and
\* exp = creation time + 24 hours.
C2_CreateThenGet ==
    [][\A id \in DOMAIN hist' \ DOMAIN hist :
          LET g == GetSessionAt(store', TRUE, id)
          IN  /\ g.found
              /\ g.data = [userId |-> hist'[id].userId, role |-> hist'[id].role,
                           status |-> StoredStatus(hist'[id].status),
                           exp |-> now + SessionTTL]]_vars

C2_Witness ==
    \E id \in DOMAIN hist :
        /\ hist[id].status = Undefined /\ hist[id].role = "admin"
        /\ GetSession(id, TRUE).found
        /\ GetSession(id, TRUE).data.status = "active"
        /\ GetSession(id, TRUE).data.exp = now + SessionTTL

\* C3: getSession never returns a session whose exp is earlier than the current
\* time, and the expiry Redis holds for a session is never later than its exp.
C3_NoExpiredSessionReturned ==
    /\ \A k \in Tokens, up \in BOOLEAN :
          LET g == GetSession(k, up)
          IN  (g.found /\ HasExp(g.data)) => g.data.exp >= now
    /\ \A k \in DOMAIN store :
          (IsJSON(store[k].val) /\ HasExp(Parsed(k))) => store[k].pexp <= Parsed(k).exp

\* a session that was issued and never logged out is read as absent: it expired
C3_Witness ==
    \E id \in DOMAIN hist \ loggedOut :
        id \notin DOMAIN store /\ ~GetSession(id, TRUE).found

\* C4: once deleteSession(id) has completed, getSession(id) returns absent and
\* a request presenting id fails with 401 'Invalid or expired session', in every
\* later state.
C4_LoggedOutSessionStaysAbsent ==
    \A id \in loggedOut \cap DOMAIN hist :
        ~GetSession(id, TRUE).found /\ AuthCheck(id, TRUE) = ErrInvalid

\* C5: refreshSession on an absent session writes nothing and leaves the store
\* without an entry for it.
C5_RefreshAbsentIsNoOp ==
    [][\A r \in Conns :
          (req[r].pc = "rget" /\ req'[r].pc # "rget" /\ req[r].tok \notin DOMAIN store)
              => /\ store' = store
                 /\ req'[r].pc = "route" /\ req'[r].effect = "none"
                 /\ req[r].tok \notin DOMAIN store']_vars

\* a refreshSession that ended without a write, for a session that is logged out
C5_Witness ==
    \E r \in Conns :
        /\ req[r].pc = "route" /\ req[r].effect = "none"
        /\ req[r].tok \in loggedOut /\ req[r].tok \notin DOMAIN store

\* C6 as stated: refreshSession on a present session strictly increases the
\* stored exp.
C6_RefreshStrictlyIncreasesExp ==
    [][\A r \in Conns :
          (RefreshWrites(r) /\ req[r].tok \in DOMAIN store /\ HasExp(Parsed(req[r].tok)))
              => JSONparse(store'[req[r].tok].val).exp > Parsed(req[r].tok).exp]_vars

\* C6 as amended: refreshSession on a present session sets exp = now + 24 hours
\* and the Redis expiry to floor(exp / 1000) seconds; neither decreases, and exp
\* strictly increases when the clock has advanced since exp was last written.
C6_RefreshSetsExpToNowPlusTTL ==
    [][\A r \in Conns :
          RefreshWrites(r) =>
              LET k == req[r].tok
                  new == JSONparse(store'[k].val)
              IN  /\ new.exp = now + SessionTTL
                  /\ store'[k].pexp = (new.exp \div MsPerSec) * MsPerSec
                  /\ (k \in DOMAIN store /\ HasExp(Parsed(k))) =>
                        /\ new.exp >= Parsed(k).exp
                        /\ store'[k].pexp >= store[k].pexp
                        /\ (Parsed(k).exp < now + SessionTTL => new.exp > Parsed(k).exp)]_vars

\* a refreshSession has raised the exp of a session that is still stored
C6_Witness ==
    \E r \in Conns :
        /\ req[r].pc = "route" /\ req[r].effect = "raised"
        /\ req[r].tok \in DOMAIN store
        /\ Parsed(req[r].tok).exp = now + SessionTTL

\* C7: refreshSession changes only exp: the userId, role and status stored for
\* the session are those createSession was given, before and after every
\* refresh, and no other key of the store is written.
C7_RefreshChangesOnlyExp ==
    [][\A r \in Conns :
          RefreshWrites(r) =>
              LET k == req[r].tok
                  new == JSONparse(store'[k].val)
              IN  /\ \A x \in DOMAIN store \ {k} : x \in DOMAIN store' /\ store'[x] = store[x]
                  /\ DOMAIN store' \subseteq DOMAIN store \cup {k}
                  /\ k \in DOMAIN store =>
                        Without(new, "exp") = Without(Parsed(k), "exp")
                  /\ k \in DOMAIN hist =>
                        /\ new.userId = hist[k].userId
                        /\ new.role = hist[k].role
                        /\ new.status = StoredStatus(hist[k].status)]_vars

\* a refreshed session that is not active still holds what createSession was given
C7_Witness ==
    \E r \in Conns :
        /\ req[r].pc = "route" /\ req[r].effect \in {"kept", "raised"}
        /\ req[r].tok \in DOMAIN store \cap DOMAIN hist
        /\ hist[req[r].tok].status = "inactive"
        /\ Parsed(req[r].tok).status = "inactive"
        /\ Parsed(req[r].tok).userId = hist[req[r].tok].userId

\* getSession does not raise, and answers a failed read or an unparsable value
\* as it answers a key that never existed
GetSessionSafe ==
    \A k \in Tokens \cup {NoToken}, up \in BOOLEAN :
        LET g == GetSession(k, up)
        IN  /\ ~g.raised
            /\ (~up \/ (k \in DOMAIN store /\ ~IsJSON(store[k].val)))
                  => g = GetSession(BogusToken, TRUE)

\* C8: in every state a step leads to, getSession never raises: a failed store
\* read or an unparsable value is returned as absent, like a session that never
\* existed; and the steps that call getSession leave the store unchanged.
C8_GetSessionNeverRaises ==
    [][/\ GetSessionSafe'
       /\ \A r \in Conns :
             (req[r].pc \in {"idle", "rget"} /\ req'[r] # req[r]) => store' = store]_vars

\* a refreshSession found nothing although the session is stored (its read
\* failed), and the unparsable key reads as absent
C8_Witness ==
    /\ \E r \in Conns :
          /\ req[r].pc = "route" /\ req[r].effect = "none"
          /\ req[r].tok \in DOMAIN store
    /\ ForeignKey \in DOMAIN store /\ ~IsJSON(store[ForeignKey].val)
    /\ ~GetSession(ForeignKey, TRUE).found

\* C9 as stated: while a state is stored in the caller's oauth_state cookie,
\* exchangeCodeForProfile called with a different state fails with 'Invalid
\* state parameter', for every provider of the enum, every code and every reply.
C9_MismatchAlwaysInvalidState ==
    \A c \in Callers, p \in Providers, code \in Codes, st \in QueryStates :
        \A reply \in Replies(p) :
            LET storedState == GetCookie(jar[c], now, StateCookieKey)
            IN  (storedState # 0 /\ st # storedState) =>
                    ExchangeCodeForProfile(Configs(env), p, code, st, jar[c], now,
                                           reply).error = ErrInvalidState

\* C9: for a registered provider, exchangeCodeForProfile called with a state
\* that differs from the one stored in the caller's oauth_state cookie fails
\* with 'Invalid state parameter' and issues no request, whatever the code,
\* the provider's reply and the stored verifier.
C9_MismatchInvalidStateWhenRegistered ==
    \A c \in Callers, p \in Configs(env), code \in Codes, st \in QueryStates :
        \A reply \in Replies(p) :
            LET x == ExchangeCodeForProfile(Configs(env), p, code, st, jar[c], now, reply)
            IN  st # GetCookie(jar[c], now, StateCookieKey) =>
                    x.error = ErrInvalidState /\ x.requests = <<>>

\* a callback for a registered provider has just been rejected for its state
\* while a state and a verifier are stored
C9_Witness ==
    /\ resp.caller = "b1" /\ resp.error = ErrInvalidState
    /\ issued["b1"].provider \in Configs(env)
    /\ GetCookie(jar["b1"], now, StateCookieKey) # 0
    /\ GetCookie(jar["b1"], now, VerifierCookieKey) # 0

\* C10: the callback issues a token or profile request only if the state it
\* is given is the one issued for the caller's attempt in flight and the
\* verifier issued with it is stored, and that verifier is the one sent; with
\* the stored state and no stored verifier exchangeCodeForProfile fails with
\* 'Missing PKCE verifier' and issues no request.
C10_NoRequestWithoutStateAndVerifier ==
    \A c \in Callers, p \in RouteProviders, code \in Codes, st \in QueryStates :
        \A reply \in Replies(p) :
            LET verifier == GetCookie(jar[c], now, VerifierCookieKey)
                x == CallbackHandler(Configs(env), p, code, st, jar[c], now, reply)
                y == ExchangeCodeForProfile(Configs(env), p, code, st, jar[c], now, reply)
            IN  /\ x.requests # <<>> =>
                      /\ st # 0 /\ st = IssuedState(c)
                      /\ verifier # 0 /\ verifier = issued[c].verifier
                      /\ x.requests[1].code_verifier = verifier
                /\ (p \in Configs(env) /\ st = GetCookie(jar[c], now, StateCookieKey)
                        /\ verifier = 0) =>
                      y.error = ErrMissingVerifier /\ y.requests = <<>>

\* a callback presenting the issued state has sent its requests, the first
\* of them carrying the stored verifier
C10_Witness ==
    /\ wire # <<>>
    /\ resp.caller = "b1"
    /\ wire[1].code_verifier = issued["b1"].verifier

\* the values randomUUID has handed out that a caller holds or was issued
KnownUuids ==
    UNION {{jar[d][n].val : n \in CookieNames} \cup {issued[d].state, issued[d].verifier} :
           d \in Callers}

\* C11: a getAuthUrl call that succeeds is for a registered provider, draws a
\* state and a verifier that no caller holds or was issued before and that
\* differ from each other, stores both in the caller's cookies with an expiry
\* 5 minutes ahead, and returns a URL with response_type=code,
\* code_challenge_method=S256, the stored state and the challenge of the stored
\* verifier.
C11_GetAuthUrlIssuesFreshHandshake ==
    [][\A c \in Callers :
          issued'[c] # issued[c] =>
              LET h == issued'[c]
                  lifetime == CookieExpiration * MsPerSec
              IN  /\ h.provider \in Configs(env)
                  /\ h.state \notin KnownUuids /\ h.verifier \notin KnownUuids
                  /\ h.state # h.verifier /\ h.state # 0 /\ h.verifier # 0
                  /\ jar'[c][StateCookieKey] = [val |-> h.state, expires |-> now + lifetime]
                  /\ jar'[c][VerifierCookieKey] =
                        [val |-> h.verifier, expires |-> now + lifetime]
                  /\ lifetime = 300000
                  /\ h.url.provider = h.provider
                  /\ h.url.response_type = "code"
                  /\ h.url.code_challenge_method = "S256"
                  /\ h.url.state = jar'[c][StateCookieKey].val
                  /\ h.url.code_challenge =
                        GenerateCodeChallenge(jar'[c][VerifierCookieKey].val)]_vars

\* the caller's second handshake is in flight: its cookies hold the state of
\* the returned URL and the verifier of its challenge
C11_Witness ==
    /\ uuids >= 4
    /\ issued["b1"].url # Null
    /\ GetCookie(jar["b1"], now, StateCookieKey) = issued["b1"].url.state
    /\ GenerateCodeChallenge(GetCookie(jar["b1"], now, VerifierCookieKey))
          = issued["b1"].url.code_challenge

\* the caller started a handshake and the lifetime of both cookies is over
Lapsed(c) ==
    /\ issued[c].state # 0
    /\ \A n \in CookieNames : now >= jar[c][n].expires

\* C12: once the state and verifier cookies of a caller's handshake have
\* expired, exchangeCodeForProfile, and the callback route that calls it, fail
\* for every provider, code and state, the issued state included, and no
\* provider request is issued.
C12_LapsedHandshakeRejected ==
    \A c \in Callers :
        Lapsed(c) =>
            \A p \in RouteProviders, code \in Codes, st \in QueryStates :
                \A reply \in Replies(p) :
                    LET x == CallbackHandler(Configs(env), p, code, st, jar[c], now, reply)
                        y == ExchangeCodeForProfile(Configs(env), p, code, st, jar[c], now,
                                                    reply)
                    IN  /\ x.error # "" /\ x.requests = <<>> /\ x.user = Null
                        /\ y.error # "" /\ y.requests = <<>> /\ y.user = Null

\* five minutes after a handshake for a registered provider its cookies are
\* still in the jar, and a callback has presented the issued state and been
\* rejected with 'Invalid state parameter'
C12_Witness ==
    /\ Lapsed("b1")
    /\ now = issued["b1"].expires
    /\ issued["b1"].provider \in Configs(env)
    /\ jar["b1"][StateCookieKey].val = issued["b1"].state
    /\ jar["b1"][VerifierCookieKey].val = issued["b1"].verifier
    /\ \A reply \in Replies(issued["b1"].provider) :
          ExchangeCodeForProfile(Configs(env), issued["b1"].provider, "code1",
                                 issued["b1"].state, jar["b1"], now, reply).error
            = ErrInvalidState
    /\ resp = Rejected("b1", ErrInvalidState)

\* both credentials of the provider were set when the process started
BothCredentialsSet(p) ==
    /\ env[p].clientId \notin {Undefined, ""}
    /\ env[p].clientSecret \notin {Undefined, ""}

\* exchangeCodeForProfile for a provider without both credentials fails with
\* 'not configured' and issues no request, whatever it is given
UnregisteredExchangeFails ==
    /\ Configs(env) = {p \in Providers : BothCredentialsSet(p)}
    /\ \A c \in Callers, p \in Providers, code \in Codes, st \in QueryStates :
          ~BothCredentialsSet(p) =>
              \A reply \in Replies(p) :
                  ExchangeCodeForProfile(Configs(env), p, code, st, jar[c], now, reply)
                    = Failure(ErrNotConfigured, <<>>)

\* C14: the registered providers are exactly those with both client id and
\* client secret set at startup; for any other provider exchangeCodeForProfile
\* fails with 'not configured' and issues no provider request, a getAuthUrl
\* call answered 'not configured' leaves every caller's cookies and the uuid
\* source untouched and issues no request, and a state and verifier are only
\* ever issued for a provider with both credentials. (exchangeCodeForProfile
\* reads the environment, the caller's cookies and the clock: it is looked at
\* in the initial state and after every step that changes one of them.)
C14_UnregisteredProviderNotConfigured ==
    [][/\ (uuids = 0 /\ ticks = 0) => UnregisteredExchangeFails
       /\ (jar' # jar \/ now' # now \/ env' # env) => UnregisteredExchangeFails'
       /\ \A c \in Callers :
             /\ (resp' = Rejected(c, ErrNotConfigured) /\ resp' # resp) =>
                   jar' = jar /\ uuids' = uuids /\ issued' = issued /\ wire' = <<>>
             /\ (jar'[c] # jar[c] /\ uuids' # uuids) =>
                   /\ BothCredentialsSet(issued'[c].provider)
                   /\ resp' = [NoResponse EXCEPT !.caller = c]
             /\ \A p \in StartProviders \cap Providers :
                   (~BothCredentialsSet(p) /\ GetAuthUrl(c, p)) =>
                       /\ resp' = Rejected(c, ErrNotConfigured)
                       /\ jar' = jar /\ uuids' = uuids /\ wire' = <<>>]_vars

\* GitHub's client id is missing: a getAuthUrl call for it was answered 'not
\* configured' with no cookie set, while Google is registered
C14_Witness ==
    /\ ~BothCredentialsSet("github") /\ BothCredentialsSet("google")
    /\ ~BothCredentialsSet("discord")
    /\ resp = Rejected("b1", ErrNotConfigured)
    /\ wire = <<>>
    /\ jar["b1"] = NoCookies /\ uuids = 0

\* two browsers run login attempts with Google side by side
PairProviders == {"google"}
PairCodes == {"code1"}

NextOAuthPair ==
    \/ \E c \in Callers, p \in PairProviders : GetAuthUrl(c, p)
    \/ \E c \in Callers, p \in PairProviders, code \in PairCodes, st \in QueryStates :
          IF Rejects(c, p, code, st) THEN OAuthCallback(c, p, code, st, NoReply, TRUE)
          ELSE \E reply \in Replies(p), up \in BOOLEAN :
                 OAuthCallback(c, p, code, st, reply, up)
    \/ \E d \in OAuthDeltas : Tick(d, PairTicks)

SpecOAuthPair == Init /\ [][NextOAuthPair]_vars

\* exchangeCodeForProfile fails with 'Invalid state parameter' for the caller
\* holding the given cookies, whatever provider, code and provider reply
InvalidStateFor(cookies, t, st) ==
    \A p \in Configs(env), code \in Codes :
        \A reply \in Replies(p) :
            ExchangeCodeForProfile(Configs(env), p, code, st, cookies, t, reply)
              = Failure(ErrInvalidState, <<>>)

\* C13: a getAuthUrl call of a caller whose earlier attempt is in flight
\* replaces the stored state and verifier, so that exchangeCodeForProfile with
\* the earlier state fails with 'Invalid state parameter' from then on; a
\* caller's cookies change only by that caller's own getAuthUrl, and no step
\* of one caller changes the cookies or the handshake of another.
C13_SecondAttemptOverwritesOwnOnly ==
    [][\A c \in Callers :
          LET first == GetCookie(jar[c], now, StateCookieKey)
              firstVerifier == GetCookie(jar[c], now, VerifierCookieKey)
          IN  /\ issued'[c] # issued[c] =>
                    /\ \A d \in Callers \ {c} : jar'[d] = jar[d] /\ issued'[d] = issued[d]
                    /\ first # 0 =>
                          /\ GetCookie(jar'[c], now', StateCookieKey) \notin {0, first}
                          /\ GetCookie(jar'[c], now', VerifierCookieKey)
                                \notin {0, firstVerifier}
                          /\ InvalidStateFor(jar'[c], now', first)
              /\ jar'[c] # jar[c] => issued'[c] # issued[c]
              /\ \A st \in 1..uuids' :
                    st # GetCookie(jar'[c], now', StateCookieKey) =>
                        InvalidStateFor(jar'[c], now', st)]_vars

\* the caller's second attempt is in flight, and its callback with the first
\* attempt's state was rejected with 'Invalid state parameter'
C13_Witness ==
    /\ issued["b1"].state = 4 /\ issued["b2"].state = 0
    /\ GetCookie(jar["b1"], now, StateCookieKey) = 4
    /\ InvalidStateFor(jar["b1"], now, 2)
    /\ resp = Rejected("b1", ErrInvalidState)
    /\ wire = <<>>

(* ------------------- the guards behind authMiddleware ------------------ *)

\* routes behind authMiddleware alone, activeUserMiddleware, adminMiddleware
GateRoutes == {"other", "active", "admin"}

GateAccounts ==
    {<<"u1", "user", "active">>, <<"u1", "user", "inactive">>,
     <<"u2", "admin", "active">>, <<"u2", "admin", "banned">>}

\* authMiddleware of src/middlewares/auth.ts up to the call of refreshSession
AuthCheckPlainAt(st, up, tok) ==
    LET g == GetSessionAt(st, up, tok)
    IN  IF tok = NoToken THEN ErrNoToken
        ELSE IF ~g.found THEN ErrInvalid
        ELSE Pass

\* the fields that authMiddleware of src/middlewares/auth.ts puts in the context
IdentityPlainOf(obj) ==
    [userId |-> Field(obj, "userId"), role |-> Field(obj, "role")]

\* authMiddleware of src/middlewares/auth.ts up to the call of refreshSession
AuthMiddlewarePlain(r, h, route, up) ==
    /\ req[r].pc = "idle"
    /\ LET tok == TokenOf(h)
       IN  IF AuthCheckPlainAt(store, up, tok) # Pass THEN Finish(r)
           ELSE req' = [req EXCEPT ![r] = [pc |-> "rget", tok |-> tok, route |-> route,
                                           data |-> IdentityPlainOf(GetSession(tok, up).data),
                                           rdata |-> Null, effect |-> "none"]]
    /\ UNCHANGED <<now, ticks, store, hist, loggedOut, payments, abacate, audit, oauthVars>>

InactiveUserError(message) == [status |-> 403, message |-> message]
AdminError(message) == [status |-> 403, message |-> message]
Passed == [status |-> 200, message |-> ""]

\* mutant: activeUserMiddleware tests for 'banned' where the code tests for 'inactive'
ActiveCheckBanned(st, up, sessionId) ==
    LET g == GetSessionAt(st, up, sessionId)
    IN  IF ~g.found THEN InactiveUserError("Session not found")
        ELSE IF Field(g.data, "status") = "banned"
        THEN InactiveUserError("Your account is inactive. You cannot perform this action. Please contact support.")
        ELSE Passed

\* activeUserMiddleware: what it throws, or Passed
ActiveCheckAt(st, up, sessionId) ==
    LET g == GetSessionAt(st, up, sessionId)
    IN  IF ~g.found THEN InactiveUserError("Session not found")
        ELSE IF Field(g.data, "status") = "inactive"
        THEN InactiveUserError("Your account is inactive. You cannot perform this action. Please contact support.")
        ELSE Passed

\* the context before authMiddleware has put an identity in it
NoIdentity == [userId |-> Undefined, role |-> Undefined]

\* adminMiddleware: what it throws, or Passed
AdminCheck(ctx) ==
    IF ~Truthy(ctx.userId) THEN AdminError("Authentication required")
    ELSE IF ctx.role # "admin" THEN AdminError("Admin access required")
    ELSE Passed

\* the response of a guarded route
Response(r, tok, x) ==
    [caller |-> r, error |-> x.message, sessionId |-> tok, status |-> x.status]

\* a route that derives activeUserMiddleware after authMiddleware
ActiveUserMiddleware(r, up) ==
    /\ req[r].pc = "route" /\ req[r].route = "active"
    /\ resp' = Response(r, req[r].tok, ActiveCheckAt(store, up, req[r].tok))
    /\ Finish(r)
    /\ UNCHANGED <<now, ticks, store, hist, loggedOut, payments, abacate, audit, notifier, env, jar, issued, uuids, wire, exch>>

\* an /admin route reached with the identity authMiddleware exposed
AdminMiddleware(r) ==
    /\ req[r].pc = "route" /\ req[r].route = "admin"
    /\ resp' = Response(r, req[r].tok, AdminCheck(req[r].data))
    /\ Finish(r)
    /\ UNCHANGED <<now, ticks, store, hist, loggedOut, payments, abacate, audit, notifier, env, jar, issued, uuids, wire, exch>>

\* an /admin route as handlers/admin derives it: adminMiddleware alone
AdminUngated(r) ==
    /\ req[r].pc = "idle"
    /\ resp' = Response(r, NoToken, AdminCheck(NoIdentity))
    /\ UNCHANGED <<now, ticks, store, hist, loggedOut, payments, abacate, audit, req, notifier, env, jar, issued, uuids,
                   wire, exch>>

\* one request at a time through authMiddleware and the guards
NextGate ==
    \/ \E a \in GateAccounts : CreateSession(a[1], a[2], a[3])
    \/ \E h \in Headers, rt \in GateRoutes, up \in BOOLEAN : AuthMiddleware("r1", h, rt, up)
    \/ \E up \in BOOLEAN : RefreshGet("r1", up)
    \/ \E up \in BOOLEAN : RefreshSet("r1", up)
    \/ \E up \in BOOLEAN : req["r1"].route \in Routes /\ RouteHandler("r1", up)
    \/ \E up \in BOOLEAN : ActiveUserMiddleware("r1", up)
    \/ AdminMiddleware("r1")
    \/ AdminUngated("r1")
    \/ \E d \in Deltas : Tick(d, GateTicks)

SpecGate == Init /\ [][NextGate]_vars

\* one request at a time through the authMiddleware of either file
NextGateEither ==
    \/ \E a \in GateAccounts : CreateSession(a[1], a[2], a[3])
    \/ \E h \in Headers, rt \in Routes, up \in BOOLEAN : AuthMiddleware("r1", h, rt, up)
    \/ \E h \in Headers, rt \in Routes, up \in BOOLEAN : AuthMiddlewarePlain("r1", h, rt, up)
    \/ \E up \in BOOLEAN : RefreshGet("r1", up)
    \/ \E up \in BOOLEAN : RefreshSet("r1", up)
    \/ \E up \in BOOLEAN : RouteHandler("r1", up)
    \/ \E d \in Deltas : Tick(d, GateTicks)

SpecGateEither == Init /\ [][NextGateEither]_vars

\* C15: a request presenting a session whose stored status is 'banned' never
\* gets past authMiddleware, whatever the session's role: it is answered with
\* the 403 banned error, so no refresh, route or active check runs for it.
C15_BannedNeverPassesGate ==
    [][\A r \in Conns :
          /\ (req[r].pc = "idle" /\ req'[r].pc # "idle") =>
                Field(GetSession(req'[r].tok, TRUE).data, "status") # "banned"
          /\ \A id \in DOMAIN hist, up \in BOOLEAN :
                (GetSession(id, up).found /\ hist[id].status = "banned") =>
                    /\ AuthCheckAt(store, up, id) = ErrBanned
                    /\ AuthCheckPlainAt(store, up, id) = ErrBanned]_vars

ErrInactive ==
    InactiveUserError("Your account is inactive. You cannot perform this action. Please contact support.")

\* the stored sessions that Redis returns, by the status they were created with
StoredWith(status) ==
    {id \in DOMAIN hist : GetSession(id, TRUE).found /\ hist[id].status = status}

\* C16: for a stored session with status 'inactive', authMiddleware passes and
\* activeUserMiddleware throws its 403 error; for one with status 'active'
\* both pass. A request that presents an inactive session leaves
\* authMiddleware with the session's identity exposed and is answered 403 by
\* activeUserMiddleware; one that presents an active session is answered 403
\* only with 'Session not found', when the session cannot be read any more.
C16_InactivePassesAuthFailsActive ==
    [][/\ \A id \in StoredWith("inactive") :
             /\ AuthCheckAt(store, TRUE, id) = Pass
             /\ ActiveCheckAt(store, TRUE, id) = ErrInactive
             /\ ErrInactive.status = 403
       /\ \A id \in StoredWith("active") :
             /\ AuthCheckAt(store, TRUE, id) = Pass
             /\ ActiveCheckAt(store, TRUE, id) = Passed
       /\ \A r \in Conns :
             /\ (req[r].pc = "idle" /\ req'[r].pc # "idle"
                   /\ req'[r].tok \in StoredWith("inactive")) =>
                   req'[r].data = [userId |-> hist[req'[r].tok].userId,
                                   role |-> hist[req'[r].tok].role,
                                   status |-> "inactive"]
             /\ (req[r].pc = "route" /\ req[r].route = "active" /\ req'[r].pc = "idle") =>
                   /\ resp'.caller = r /\ resp'.sessionId = req[r].tok
                   /\ req[r].data.status = "inactive" => resp'.status = 403
                   /\ (req[r].data.status = "active" /\ GetSession(req[r].tok, TRUE).found) =>
                         \/ resp'.status = 200
                         \/ resp'.status = 403 /\ resp'.error = "Session not found"
                   /\ (req[r].data.status = "active" /\ resp'.status # 200) =>
                         resp'.error = "Session not found"]_vars

\* a request with an inactive session went through authMiddleware and was
\* answered 403 by activeUserMiddleware while the session is still stored
C16_Witness ==
    \E id \in StoredWith("inactive") :
        /\ resp = Response("r1", id, ErrInactive)
        /\ req["r1"].pc = "idle"
        /\ hist[id].role = "user"

\* C17: authMiddleware, in either of its files, throws the 401 'No session
\* token provided' when the Authorization header is absent or empty and the
\* 401 'Invalid or expired session' when getSession returns nothing for the
\* token; a request gets past it only with a token for which getSession
\* returns a session, and the step that decides this writes nothing to the
\* store and creates no session.
C17_AbsentTokenOrSessionIs401 ==
    [][/\ \A h \in Headers, up \in BOOLEAN :
             LET tok == TokenOf(h)
             IN  /\ (~h.present \/ tok = NoToken) =>
                       /\ AuthCheckAt(store, up, tok) = ErrNoToken
                       /\ AuthCheckPlainAt(store, up, tok) = ErrNoToken
                 /\ (tok # NoToken /\ ~GetSession(tok, up).found) =>
                       /\ AuthCheckAt(store, up, tok) = ErrInvalid
                       /\ AuthCheckPlainAt(store, up, tok) = ErrInvalid
       /\ \A r \in Conns :
             (req[r].pc = "idle" /\ req'[r] # req[r]) =>
                 /\ store' = store /\ hist' = hist
                 /\ req'[r].pc = "rget"
                 /\ req'[r].tok # NoToken
                 /\ GetSession(req'[r].tok, TRUE).found
                 /\ req'[r].data \in {IdentityOf(GetSession(req'[r].tok, TRUE).data),
                                      IdentityPlainOf(GetSession(req'[r].tok, TRUE).data)}]_vars

\* a session was created and has expired: its id now gets the 401 'Invalid or
\* expired session' from both files, no request is in flight and the store
\* holds no session
C17_Witness ==
    \E id \in DOMAIN hist :
        /\ id \notin DOMAIN store
        /\ AuthCheckAt(store, TRUE, id) = ErrInvalid
        /\ AuthCheckPlainAt(store, TRUE, id) = ErrInvalid
        /\ AuthCheckAt(store, TRUE, NoToken) = ErrNoToken
        /\ req["r1"] = Idle
        /\ DOMAIN store \cap SessionIds = {}

\* C18: when a request gets through authMiddleware, at time t, the session it
\* presented is stored with exp = t + 24h, and the identity exposed to the
\* route is the stored session's userId, role and status, with the presented
\* token as sessionId.
C18_SuccessSlidesExpiryAndExposesIdentity ==
    [][\A r \in Conns :
          (req[r].pc \in {"rget", "rset"} /\ req'[r].pc = "route") =>
              LET k == req'[r].tok
              IN  /\ k = req[r].tok
                  /\ k \in DOMAIN store' /\ IsJSON(store'[k].val)
                  /\ HasExp(JSONparse(store'[k].val))
                  /\ JSONparse(store'[k].val).exp = now' + SessionTTL
                  /\ req'[r].data = IdentityOf(JSONparse(store'[k].val))]_vars

\* C19: adminMiddleware answers 401 when the context holds no identity and
\* 403 when the identity's role is not admin, and lets the request through
\* exactly when an identity is present and its role is admin.
C19_AdminCheckStatuses ==
    [][\A r \in Conns :
          /\ (req[r].pc = "route" /\ req[r].route = "admin" /\ req'[r].pc = "idle") =>
                LET ctx == req[r].data
                IN  /\ ~Truthy(ctx.userId) => resp'.status = 401
                    /\ (Truthy(ctx.userId) /\ ctx.role # "admin") => resp'.status = 403
                    /\ resp'.status = 200 <=> (Truthy(ctx.userId) /\ ctx.role = "admin")
          /\ (req[r].pc = "idle" /\ req' = req /\ resp' # resp /\ resp'.caller = r) =>
                resp'.status = 401]_vars

(* --------------------------- createQR and poll -------------------------- *)

Poll(i) == abacate.polls[i]

\* history: what the step of a poll from w to v pushed, and whether it returned
Audited(a, w, v) ==
    LET grown(l) == IF Len(v[l]) > Len(w[l])
                    THEN {<<Field(v[l][Len(v[l])], "id"), l>>} ELSE {}
        pushes == grown("successes") \cup grown("failures")
    IN  [a EXCEPT !.reported = @ \cup pushes,
                  !.again = @ \cup {x[1] : x \in {y \in pushes :
                                 \E l \in {"successes", "failures"} : <<y[1], l>> \in a.reported}},
                  !.polled = @ \/ (v.pc = "idle" /\ ~v.raised /\ v.logged = 0)]

SetPoll(i, w) ==
    /\ abacate' = [abacate EXCEPT !.polls[i] = w]
    /\ audit' = Audited(audit, Poll(i), w)

\* createQR up to its return: the provider creates the payment or rejects it,
\* store() is called and not awaited: its SET is on its way to Redis
CreateQRRequest(p, ok) ==
    /\ p \notin DOMAIN payments
    /\ IF ok
       THEN /\ payments' = [q \in DOMAIN payments \cup {p} |->
                              IF q = p THEN [status |-> "PENDING",
                                             expiresAt |-> ExMs(now, QrExpiresIn)]
                              ELSE payments[q]]
            /\ abacate' = [abacate EXCEPT !.storing = @ \cup {p}]
       ELSE UNCHANGED <<payments, abacate>>
    /\ UNCHANGED <<now, ticks, store, hist, loggedOut, audit, req, oauthVars>>

\* store(): Redis executes the SET ... EX of the ledger entry, or the command
\* fails, some time after createQR returned
StoreLedger(p, up) ==
    /\ p \in abacate.storing
    /\ abacate' = [abacate EXCEPT !.storing = @ \ {p}]
    /\ store' = IF up THEN LedgerStore(store, now, p, Payment(p), QrExpiresIn) ELSE store
    /\ audit' = [audit EXCEPT !.recorded = IF up THEN @ \cup {p} ELSE @]
    /\ UNCHANGED <<now, ticks, hist, loggedOut, payments, req, oauthVars>>

\* the provider moves a payment on
ProviderUpdate(p, status) ==
    /\ p \in DOMAIN payments
    /\ \/ payments[p].status = "PENDING" /\ status \in {"PAID", "EXPIRED", "CANCELLED"}
       \/ payments[p].status = "PAID" /\ status = "REFUNDED"
    /\ payments' = [payments EXCEPT ![p].status = status]
    /\ UNCHANGED <<now, ticks, store, hist, loggedOut, abacate, audit, req, oauthVars>>

\* the commands this client issued earlier have been answered: Redis serves
\* the commands of one connection in the order they were issued
Answered == abacate.storing = {}

\* poll: the key scan, outside the try
PollScan(i, up) ==
    /\ Poll(i).pc = "idle" /\ Answered
    /\ IF ~up THEN SetPoll(i, [PollIdle EXCEPT !.raised = TRUE])
       ELSE SetPoll(i, Advance([PollIdle EXCEPT !.keys = ScanKeys(store)]))
    /\ UNCHANGED <<now, ticks, store, hist, loggedOut, payments, req, oauthVars>>

\* mutant: the `if (!data) continue` is dropped; JSON.parse(null) is null and
\* reading payment.id throws into the catch
PollGetNoSkip(i, k, up) ==
    /\ Poll(i).pc = "get" /\ k \in Poll(i).keys /\ Answered
    /\ LET w == [Poll(i) EXCEPT !.keys = @ \ {k}]
       IN  IF ~up THEN SetPoll(i, Caught(w))
           ELSE IF k \notin DOMAIN store THEN SetPoll(i, Caught(w))
           ELSE IF ~IsJSON(store[k].val) THEN SetPoll(i, Caught(w))
           ELSE SetPoll(i, [w EXCEPT !.pc = "check", !.key = k,
                                     !.payment = JSONparse(store[k].val)])
    /\ UNCHANGED <<now, ticks, store, hist, loggedOut, payments, req, oauthVars>>

\* poll: redis.get(key) and JSON.parse for the next key
PollGet(i, k, up) ==
    /\ Poll(i).pc = "get" /\ k \in Poll(i).keys /\ Answered
    /\ LET w == [Poll(i) EXCEPT !.keys = @ \ {k}]
       IN  IF ~up THEN SetPoll(i, Caught(w))
           ELSE IF k \notin DOMAIN store THEN SetPoll(i, Advance(w))
           ELSE IF ~IsJSON(store[k].val) THEN SetPoll(i, Caught(w))
           ELSE SetPoll(i, [w EXCEPT !.pc = "check", !.key = k,
                                     !.payment = JSONparse(store[k].val)])
    /\ UNCHANGED <<now, ticks, store, hist, loggedOut, payments, req, oauthVars>>

\* mutant: the `continue` after the failure branch is missing and the entry
\* falls through to successes.push as well
PollCheckFallsThrough(i, ok) ==
    /\ Poll(i).pc = "check"
    /\ LET w == Poll(i)
           id == Field(w.payment, "id")
       IN  IF ~ok \/ id \notin DOMAIN payments THEN SetPoll(i, Caught(w))
           ELSE LET verdict == Classify(payments[id].status, payments[id].expiresAt, now)
                IN  IF verdict = "failure"
                    THEN SetPoll(i, [w EXCEPT !.pc = "del",
                                              !.failures = Append(@, w.payment),
                                              !.successes = Append(@, w.payment)])
                    ELSE IF verdict = "pending"
                    THEN SetPoll(i, Advance([w EXCEPT !.pending = Append(@, w.payment)]))
                    ELSE SetPoll(i, [w EXCEPT !.pc = "del",
                                              !.successes = Append(@, w.payment)])
    /\ UNCHANGED <<now, ticks, store, hist, loggedOut, payments, req, oauthVars>>

\* poll: checkQRStatus and the verdict
PollCheck(i, ok) ==
    /\ Poll(i).pc = "check"
    /\ LET w == Poll(i)
           id == Field(w.payment, "id")
       IN  IF ~ok \/ id \notin DOMAIN payments THEN SetPoll(i, Caught(w))
           ELSE LET verdict == Classify(payments[id].status, payments[id].expiresAt, now)
                IN  IF verdict = "failure"
                    THEN SetPoll(i, [w EXCEPT !.pc = "del",
                                              !.failures = Append(@, w.payment)])
                    ELSE IF verdict = "pending"
                    THEN SetPoll(i, Advance([w EXCEPT !.pending = Append(@, w.payment)]))
                    ELSE SetPoll(i, [w EXCEPT !.pc = "del",
                                              !.successes = Append(@, w.payment)])
    /\ UNCHANGED <<now, ticks, store, hist, loggedOut, payments, req, oauthVars>>

\* poll: redis.del(key) after the push
PollDel(i, up) ==
    /\ Poll(i).pc = "del" /\ Answered
    /\ store' = IF up THEN RedisDel(store, Poll(i).key) ELSE store
    /\ SetPoll(i, IF up THEN Advance(Poll(i)) ELSE Caught(Poll(i)))
    /\ UNCHANGED <<now, ticks, hist, loggedOut, payments, req, oauthVars>>

\* time passes for the ledger; the history notes whether the cron job's poll
\* ran to its end, with no error, since the last advance
PollTick(d, max) ==
    /\ ticks < max
    /\ ticks' = ticks + 1
    /\ now' = now + d
    /\ store' = Purge(store, now')
    /\ audit' = [audit EXCEPT !.polled = FALSE,
                              !.lazy = @ \/ ~audit.polled
                                         \/ \E i \in Pollers : Poll(i).pc # "idle"]
    /\ UNCHANGED <<hist, loggedOut, payments, abacate, req, oauthVars>>

\* one payment is created, the provider moves it on, the cron job polls while
\* time passes
NextPoll ==
    \/ \E ok \in BOOLEAN : CreateQRRequest(GatePayId, ok)
    \/ \E up \in BOOLEAN : StoreLedger(GatePayId, up)
    \/ \E s \in ProviderStatuses : ProviderUpdate(GatePayId, s)
    \/ \E up \in BOOLEAN : PollScan("p1", up)
    \/ \E up \in BOOLEAN : PollGet("p1", LedgerKeyOf(GatePayId), up)
    \/ \E ok \in BOOLEAN : PollCheck("p1", ok)
    \/ \E up \in BOOLEAN : PollDel("p1", up)
    \/ \E d \in PollDeltas : PollTick(d, PollTicks)

SpecPoll == Init /\ [][NextPoll]_vars

\* poll i is at its verdict for an entry that the provider reports as PAID
AtPaidVerdict(i) ==
    /\ Poll(i).pc = "check"
    /\ Field(Poll(i).payment, "id") \in DOMAIN payments
    /\ payments[Field(Poll(i).payment, "id")].status = "PAID"

\* the provider check failed: the entry is skipped and nothing is pushed
Skipped(i) == abacate'.polls[i] = Caught(Poll(i))

\* the entry is pushed to successes and its DEL comes next
PushedToSuccesses(i) ==
    abacate'.polls[i] = [Poll(i) EXCEPT !.pc = "del",
                                        !.successes = Append(@, Poll(i).payment)]

\* the entry is pushed to failures and its DEL comes next
PushedToFailures(i) ==
    abacate'.polls[i] = [Poll(i) EXCEPT !.pc = "del",
                                        !.failures = Append(@, Poll(i).payment)]

AtVerdict(i) ==
    /\ Poll(i).pc = "check"
    /\ Field(Poll(i).payment, "id") \in DOMAIN payments

\* the provider's record of the entry poll i is looking at
Checked(i) == payments[Field(Poll(i).payment, "id")]

\* the step of poll i after a push: the DEL of the pushed entry's key, which
\* removes it unless Redis fails, and changes none of the lists
DelAfterPush(i) ==
    (Poll(i).pc = "del" /\ abacate'.polls[i] # Poll(i)) =>
        /\ store' \in {RedisDel(store, Poll(i).key), store}
        /\ abacate'.polls[i].successes = Poll(i).successes
        /\ abacate'.polls[i].failures = Poll(i).failures
        /\ abacate'.polls[i].pending = Poll(i).pending
        /\ abacate'.polls[i].pc \in {"get", "idle"}

C23_PendingStaysUntouched ==
    [][\A i \in Pollers :
          (AtVerdict(i) /\ abacate'.polls[i] # Poll(i)
             /\ Checked(i).status = "PENDING" /\ now <= Checked(i).expiresAt) =>
             /\ store' = store
             /\ abacate'.polls[i].successes = Poll(i).successes
             /\ abacate'.polls[i].failures = Poll(i).failures
             /\ abacate'.polls[i].pc \in {"get", "idle"}]_vars

\* poll has returned with a PENDING, unexpired payment in neither list, and
\* its entry is in the ledger as store() wrote it
C23_Witness ==
    /\ Poll("p1").pc = "idle"
    /\ Poll("p1").pending = <<Payment(1)>>
    /\ Poll("p1").successes = <<>> /\ Poll("p1").failures = <<>>
    /\ payments[1].status = "PENDING"
    /\ now <= payments[1].expiresAt
    /\ LedgerKeyOf(1) \in DOMAIN store
    /\ store[LedgerKeyOf(1)].val = JSONstringify(Payment(1))

(* ---------------------- poll over several entries ---------------------- *)

ScanIds == 1..ScanPayments

\* what the provider moves a payment to in the scan
ScanStatuses == {"PAID", "EXPIRED"}

\* as NextPoll, with more than one payment in the ledger and the clock at rest
NextScan ==
    \/ \E p \in ScanIds, ok \in BOOLEAN : CreateQRRequest(p, ok)
    \/ \E p \in ScanIds, up \in BOOLEAN : StoreLedger(p, up)
    \/ \E p \in ScanIds, s \in ScanStatuses : ProviderUpdate(p, s)
    \/ \E up \in BOOLEAN : PollScan("p1", up)
    \/ \E p \in ScanIds, up \in BOOLEAN : PollGet("p1", LedgerKeyOf(p), up)
    \/ \E ok \in BOOLEAN : PollCheck("p1", ok)
    \/ \E up \in BOOLEAN : PollDel("p1", up)

SpecScan == Init /\ [][NextScan]_vars

\* the step of poll i in which redis.get, JSON.parse or checkQRStatus threw
ThrewBeforeVerdict(i) ==
    /\ Poll(i).pc \in {"get", "check"}
    /\ abacate'.polls[i].logged = Poll(i).logged + 1

\* C24: when redis.get, JSON.parse or the provider check throws for an entry,
\* poll does not raise, the entry is pushed to no list and the store is left
\* as it was, and the loop goes on with every key it has not visited yet;
\* poll returns only once it has visited every key of its scan.
C24_EntryFailureIsCaught ==
    [][\A i \in Pollers :
          /\ ThrewBeforeVerdict(i) =>
                /\ ~abacate'.polls[i].raised
                /\ store' = store
                /\ abacate'.polls[i].successes = Poll(i).successes
                /\ abacate'.polls[i].failures = Poll(i).failures
                /\ abacate'.polls[i].pending = Poll(i).pending
                /\ IF Poll(i).pc = "check"
                   THEN abacate'.polls[i].keys = Poll(i).keys
                   ELSE \E k \in Poll(i).keys : abacate'.polls[i].keys = Poll(i).keys \ {k}
                /\ abacate'.polls[i].pc = IF abacate'.polls[i].keys = {} THEN "idle" ELSE "get"
          /\ (Poll(i).pc # "idle" /\ abacate'.polls[i].pc = "idle") =>
                /\ abacate'.polls[i].keys = {}
                /\ Poll(i).pc # "get" => Poll(i).keys = {}
                /\ ~abacate'.polls[i].raised]_vars

\* poll has returned after one caught error: payment 1 is in neither list and
\* still in the ledger, payment 2 of the same scan was classified and removed
C24_Witness ==
    /\ Poll("p1").pc = "idle" /\ ~Poll("p1").raised
    /\ Poll("p1").logged = 1
    /\ Poll("p1").successes = <<Payment(2)>>
    /\ Poll("p1").failures = <<>> /\ Poll("p1").pending = <<>>
    /\ LedgerKeyOf(1) \in DOMAIN store
    /\ LedgerKeyOf(2) \notin DOMAIN store

\* C25: over the polls of one poller, run one after the other, no payment id
\* is pushed to successes or failures more than once in total, and an id that
\* was pushed is out of the ledger as soon as the DEL that follows the push is
\* over, and stays out.
C25_ReportedOnceAndRemoved ==
    /\ audit.again = {}
    /\ \A x \in audit.reported :
          LedgerKeyOf(x[1]) \in DOMAIN store =>
             \E i \in Pollers : Poll(i).pc = "del" /\ Field(Poll(i).payment, "id") = x[1]

\* C26: every payment that store() has written to the ledger and whose entry
\* is no longer there has been pushed to successes or failures by some poll;
\* stated for the runs in which the cron job's poll ran to its end, with no
\* error, between any two advances of the clock, and never while the clock
\* advanced.
C26_NoEntryLeavesUnclassified ==
    ~audit.lazy =>
        \A p \in audit.recorded :
            LedgerKeyOf(p) \notin DOMAIN store =>
                \E l \in {"successes", "failures"} : <<p, l>> \in audit.reported

\* createQR has returned this payment's id and nothing can have taken its
\* entry out of the ledger since: no poll has pushed it and its 5 days are
\* not over
JustCreated(p) ==
    /\ p \in DOMAIN payments
    /\ \A l \in {"successes", "failures"} : <<p, l>> \notin audit.reported
    /\ now <= payments[p].expiresAt

\* C27: once createQR has returned an id, every Redis command issued from then
\* on (the key scan of a later poll included) finds the ledger entry of that
\* id, holding {id, code} with the 5-day expiry: the SET is still on its way
\* ahead of that command, or the entry is in the store.
C27_LedgerHoldsEntryAtReturn ==
    \A p \in PayIds :
        JustCreated(p) =>
            \/ p \in abacate.storing
            \/ /\ LedgerKeyOf(p) \in DOMAIN store
               /\ store[LedgerKeyOf(p)].val = JSONstringify(Payment(p))
               /\ store[LedgerKeyOf(p)].pexp >= payments[p].expiresAt

(* ------------------- the ledger while time keeps advancing ------------- *)

\* one step of the poll the cron job has started or is due to start
PollStep ==
    \/ \E up \in BOOLEAN : PollScan("p1", up)
    \/ \E up \in BOOLEAN : PollGet("p1", LedgerKeyOf(GatePayId), up)
    \/ \E ok \in BOOLEAN : PollCheck("p1", ok)
    \/ \E up \in BOOLEAN : PollDel("p1", up)

\* the clock moves on by the 5 days of the ledger's expiry
LongTick == PollTick(QrExpiresIn * MsPerSec, FairTicks)

NextPollFair ==
    \/ \E ok \in BOOLEAN : CreateQRRequest(GatePayId, ok)
    \/ \E up \in BOOLEAN : StoreLedger(GatePayId, up)
    \/ \E s \in ProviderStatuses : ProviderUpdate(GatePayId, s)
    \/ PollStep
    \/ LongTick

\* the cron pattern keeps starting polls, every awaited command of a poll is
\* answered (well or with an error), and time does not stop; nothing is
\* assumed about the answers: the provider check may fail on every poll
SpecPollFair ==
    /\ Init
    /\ [][NextPollFair]_vars
    /\ WF_vars(PollStep)
    /\ WF_vars(LongTick)

ExchProviders == {"github", "discord"}

\* exchangeCodeForProfile as the callback route calls it, with the caller's
\* cookies and the code and state of its query
\* mutant: the exchange clears the caller's state and verifier cookies
ExchangeCallConsumes(c, provider, code, state, reply) ==
    /\ LET x == ExchangeCodeForProfile(Configs(env), provider, code, state, jar[c], now, reply)
       IN  /\ exch' = [called |-> TRUE, provider |-> provider, reply |-> reply, result |-> x]
           /\ wire' = x.requests
    /\ jar' = [jar EXCEPT ![c] = NoCookies]
    /\ UNCHANGED <<now, ticks, store, hist, loggedOut, payments, abacate, audit, req,
                   notifier, env, issued, uuids, resp>>

ExchangeCall(c, provider, code, state, reply) ==
    /\ LET x == ExchangeCodeForProfile(Configs(env), provider, code, state, jar[c], now, reply)
       IN  /\ exch' = [called |-> TRUE, provider |-> provider, reply |-> reply, result |-> x]
           /\ wire' = x.requests
    /\ UNCHANGED <<now, ticks, store, hist, loggedOut, payments, abacate, audit, req,
                   notifier, env, jar, issued, uuids, resp>>

NextExchange ==
    \/ \E p \in ExchProviders : GetAuthUrl("b1", p)
    \/ \E p \in ExchProviders, st \in QueryStates :
          \E reply \in Replies(p) : ExchangeCall("b1", p, "code1", st, reply)

SpecExchange == Init /\ [][NextExchange]_vars

\* the last exchange reached the provider's handler
Exchanged(provider) ==
    exch.called /\ exch.provider = provider /\ exch.result.requests # <<>>

\* the e-mails request is among the requests of the last exchange
EmailsAsked ==
    \E i \in DOMAIN exch.result.requests : exch.result.requests[i].endpoint = "emails"

\* e is the e-mail of the first entry flagged primary, or of the first entry
\* when none is flagged
PrimaryOrFirst(items, e) ==
    /\ items # <<>>
    /\ \/ \E i \in DOMAIN items :
             /\ items[i].primary /\ e = items[i].email
             /\ \A j \in 1..(i - 1) : ~items[j].primary
       \/ /\ \A i \in DOMAIN items : ~items[i].primary
          /\ e = items[1].email

\* the lookup is made exactly when the profile carries no e-mail, and a list
\* it answers with gives the e-mail of the profile returned
LookupAndChoice ==
    /\ EmailsAsked <=> (~Has(exch.reply.profile, "email") \/ exch.reply.profile.email = "")
    /\ (EmailsAsked /\ exch.reply.emails.array /\ exch.reply.emails.items # <<>>) =>
          /\ exch.result.error = ""
          /\ PrimaryOrFirst(exch.reply.emails.items, exch.result.user.email)
    /\ ~EmailsAsked =>
          exch.result.error = "" /\ exch.result.user.email = exch.reply.profile.email

C30_UnverifiedDiscordFails ==
    (Exchanged("discord") /\ Has(exch.reply.profile, "verified")
        /\ ~exch.reply.profile.verified) =>
        exch.result.error = ErrDiscordUnverified /\ exch.result.user = Null

\* a Discord exchange failed for a profile with id, username and e-mail whose
\* verified flag is false
C30_Witness ==
    /\ Exchanged("discord")
    /\ Has(exch.reply.profile, "verified") /\ ~exch.reply.profile.verified
    /\ Truthy(Field(exch.reply.profile, "id"))
    /\ Truthy(Field(exch.reply.profile, "username"))
    /\ Truthy(Field(exch.reply.profile, "email"))
    /\ exch.result.error = ErrDiscordUnverified

\* C31: activeUserMiddleware answers every request whose stored session has
\* status 'inactive' or 'banned' with an InactiveUserError of status 403.
C31_InactiveOrBannedIsRejected ==
    \A id \in StoredWith("inactive") \cup StoredWith("banned") :
        ActiveCheckAt(store, TRUE, id).status = InactiveUserError("").status

\* C32: a session is never resurrected: once deleteSession(id) has completed
\* and no request is in flight any more, the store holds no entry for id,
\* however the refreshSession and authMiddleware calls for id were interleaved
\* with the deletion.
C32_NeverResurrected ==
    (\A r \in Conns : req[r].pc = "idle") =>
        \A id \in loggedOut \cap DOMAIN hist : id \notin DOMAIN store

\* C33: no step of the authenticated gate (authMiddleware with whatever bearer
\* token, its refreshSession, logout's deleteSession) writes, re-expires or
\* removes a payment-ledger entry: across every such step each ledger key keeps
\* its value and its expiry, and stays in the store if it was there.
C33_GateLeavesLedgerAlone ==
    [][req' # req =>
          \A k \in LedgerKeys :
              /\ k \in DOMAIN store <=> k \in DOMAIN store'
              /\ k \in DOMAIN store => store'[k] = store[k]]_vars

\* two polls in flight at once over one payment, with Redis answering every
\* command of a poll and the provider check free to fail
NextOverlap ==
    \/ \E ok \in BOOLEAN : CreateQRRequest(GatePayId, ok)
    \/ \E up \in BOOLEAN : StoreLedger(GatePayId, up)
    \/ \E s \in ScanStatuses : ProviderUpdate(GatePayId, s)
    \/ \E i \in Pollers : PollScan(i, TRUE)
    \/ \E i \in Pollers : PollGet(i, LedgerKeyOf(GatePayId), TRUE)
    \/ \E i \in Pollers, ok \in BOOLEAN : PollCheck(i, ok)
    \/ \E i \in Pollers : PollDel(i, TRUE)

SpecOverlap == Init /\ [][NextOverlap]_vars

\* this step is a step of poll i
PollStepOf(i) == abacate'.polls[i] # Poll(i)

\* the entry under key k is the one poll record w pushed last
PushedLast(w, k) ==
    \E l \in {"successes", "failures"} :
        /\ w[l] # <<>>
        /\ LedgerKeyOf(Field(w[l][Len(w[l])], "id")) = k

\* C34: with two polls overlapping, a step of either poll adds or rewrites no
\* ledger entry and removes at most the entry that poll has itself classified
\* and pushed, as a poll running alone does; its DEL of an entry the other
\* poll already removed changes nothing and raises nothing, the loop going on;
\* and an entry that is gone when the poll reads it is skipped: no provider
\* check, no push to any list, no error.
C34_OverlappingPollsAgree ==
    [][\A i \in Pollers :
          LET w == Poll(i)
              v == abacate'.polls[i]
          IN  PollStepOf(i) =>
                /\ \A k \in DOMAIN store' : k \in DOMAIN store /\ store'[k] = store[k]
                /\ \A k \in DOMAIN store \ DOMAIN store' :
                      w.pc = "del" /\ k = w.key /\ PushedLast(w, k)
                /\ (w.pc = "del" /\ w.key \notin DOMAIN store) =>
                      store' = store /\ v = Advance(w)
                /\ (w.pc = "get" /\ (w.keys \ v.keys) \cap DOMAIN store = {}) =>
                      store' = store /\ v = Advance([w EXCEPT !.keys = v.keys])]_vars

\* both polls have pushed the same entry and run their DEL to the end: the
\* second DEL found the key gone
C34_Witness ==
    /\ \A i \in Pollers :
          /\ Poll(i).pc = "idle" /\ Poll(i).logged = 0 /\ ~Poll(i).raised
          /\ PushedLast(Poll(i), LedgerKeyOf(GatePayId))
    /\ LedgerKeyOf(GatePayId) \notin DOMAIN store
    /\ GatePayId \in audit.again

(* ---------------------- createQR and the provider's answer ------------- *)

\* what pixQrCode.create answers for payment p: {data, error}
QrCreated(p) == [error |-> "", data |-> [id |-> p, brCode |-> <<"brCode", p>>,
                                          status |-> "PENDING"]]
QrRejected(e) == [error |-> e, data |-> Null]
QrErrors == {"Invalid amount", "Unauthorized"}
QrReplies(p) == {QrCreated(p)} \cup {QrRejected(e) : e \in QrErrors}

\* mutant: store() is called before the error is looked at
CreateQRStoresFirst(reply, p) ==
    IF reply.error # ""
    THEN [raised |-> TRUE, error |-> reply.error, stores |-> {p}, value |-> Null]
    ELSE [raised |-> FALSE, error |-> "", stores |-> {p},
          value |-> [code |-> reply.data.brCode, id |-> reply.data.id,
                     status |-> reply.data.status]]

\* createQR after the provider answered: what it throws or returns, and the
\* ids it calls store() for
CreateQROutcome(reply, p) ==
    IF reply.error # ""
    THEN [raised |-> TRUE, error |-> reply.error, stores |-> {}, value |-> Null]
    ELSE [raised |-> FALSE, error |-> "", stores |-> {p},
          value |-> [code |-> reply.data.brCode, id |-> reply.data.id,
                     status |-> reply.data.status]]

\* what the caller of createQR gets
QrAnswer(out) == [caller |-> "createQR", error |-> out.error, sessionId |-> NoToken,
                  value |-> out.value]

\* createQR up to its return, with the answer given to its caller
CreateQRCall(p, reply) ==
    /\ p \notin DOMAIN payments
    /\ LET out == CreateQROutcome(reply, p)
       IN  /\ payments' = IF reply.error = ""
                          THEN [q \in DOMAIN payments \cup {p} |->
                                  IF q = p THEN [status |-> "PENDING",
                                                 expiresAt |-> ExMs(now, QrExpiresIn)]
                                  ELSE payments[q]]
                          ELSE payments
           /\ abacate' = [abacate EXCEPT !.storing = @ \cup out.stores]
           /\ resp' = QrAnswer(out)
    /\ UNCHANGED <<now, ticks, store, hist, loggedOut, audit, req, notifier, env, jar, issued, uuids,
                   wire, exch>>

\* payments are created or rejected, their entries stored, while time passes
NextQR ==
    \/ \E p \in ScanIds : \E reply \in QrReplies(p) : CreateQRCall(p, reply)
    \/ \E p \in ScanIds, up \in BOOLEAN : StoreLedger(p, up)
    \/ \E d \in PollDeltas : Tick(d, PollTicks)

SpecQR == Init /\ [][NextQR]_vars

\* this step is a createQR that threw
QrThrew == resp' # resp /\ resp'.caller = "createQR" /\ resp'.error # ""

\* C35: when the provider answers the creation with an error, createQR throws
\* that error and calls store() for nothing; the step leaves the store, the
\* writes on their way and the provider's payments as they were, and every
\* ledger entry, stored or on its way, is the entry of a payment the provider
\* created.
C35_RejectedCreationWritesNothing ==
    [][/\ \A p \in ScanIds, e \in QrErrors :
             LET out == CreateQROutcome(QrRejected(e), p)
             IN  out.raised /\ out.error = e /\ out.stores = {}
       /\ QrThrew =>
             /\ resp'.error \in QrErrors
             /\ store' = store /\ abacate' = abacate /\ payments' = payments
       /\ \A p \in ScanIds :
             (p \in abacate'.storing \/ LedgerKeyOf(p) \in DOMAIN store') =>
                 p \in DOMAIN payments']_vars

\* a creation was rejected while the ledger held the entry of another payment
C35_Witness ==
    /\ resp.caller = "createQR" /\ resp.error \in QrErrors
    /\ abacate.storing = {}
    /\ \E p \in ScanIds :
          /\ DOMAIN payments = {p}
          /\ ScanKeys(store) = {LedgerKeyOf(p)}
          /\ store[LedgerKeyOf(p)].val = JSONstringify(Payment(p))

\* the requests of the last callback show a profile request that carried an
\* access token: the provider accepted the code
TokenGranted ==
    \E i \in DOMAIN wire : wire[i].endpoint = "user" /\ wire[i].bearer # Undefined

\* C36: the OAuth callback creates a session only in a step in which the
\* provider accepted the code and exchangeCodeForProfile returned a profile,
\* and a callback answered with an error leaves the session store as it was.
C36_SessionOnlyAfterAuthentication ==
    [][/\ DOMAIN hist' # DOMAIN hist => TokenGranted'
       /\ (resp' # resp /\ resp'.error # "") => (store' = store /\ hist' = hist)]_vars

\* C37: exchangeCodeForProfile for a registered provider gets past its state
\* and verifier checks (it sends a request or returns a profile) only for the
\* provider that the caller's handshake in flight was started for by
\* getAuthUrl.
C37_HandshakeBoundToProvider ==
    \A c \in Callers, p \in Configs(env), st \in QueryStates :
        \A reply \in Replies(p) :
            LET x == ExchangeCodeForProfile(Configs(env), p, "code1", st, jar[c], now, reply)
            IN  (x.requests # <<>> \/ x.error = "") => issued[c].provider = p

\* handshakes and exchanges of one caller while the cookies age
NextReplay ==
    \/ \E p \in ExchProviders : GetAuthUrl("b1", p)
    \/ \E p \in ExchProviders, st \in QueryStates :
          \E reply \in Replies(p) : ExchangeCall("b1", p, "code1", st, reply)
    \/ \E d \in OAuthDeltas : Tick(d, OAuthTicks)

SpecReplay == Init /\ [][NextReplay]_vars

\* the last exchange got past the state and verifier checks with the state
\* and verifier of c's handshake, which is still within its lifetime
ExchangedInFlight(c) ==
    /\ exch.called /\ wire # <<>>
    /\ wire[1].code_verifier = issued[c].verifier
    /\ now < issued[c].expires

\* exchangeCodeForProfile with c's issued state gets past both checks
PassesAgain(c) ==
    \A reply \in Replies(exch.provider) :
        LET x == ExchangeCodeForProfile(Configs(env), exch.provider, "code1",
                                        issued[c].state, jar[c], now, reply)
        IN  /\ x.error \notin {ErrNotConfigured, ErrInvalidState, ErrMissingVerifier}
            /\ x.requests # <<>>
            /\ x.requests[1].code_verifier = issued[c].verifier

\* C38: a step of exchangeCodeForProfile, whether it fails or returns a
\* profile, leaves the caller's cookies as they were; after an exchange that
\* passed the checks, and while the 5 minutes of the handshake last, a further
\* exchange presenting the same state passes the state and verifier checks
\* again, whatever the provider answers.
C38_ExchangeLeavesCookies ==
    [][/\ exch' # exch => jar' = jar
       /\ ExchangedInFlight("b1")' => PassesAgain("b1")']_vars

\* an exchange has passed the checks and failed at the provider; time has
\* passed since the handshake began and the cookies are still sent
C38_Witness ==
    /\ ExchangedInFlight("b1")
    /\ exch.result.error = ErrDiscordUnverified
    /\ ticks > 0
    /\ GetCookie(jar["b1"], now, StateCookieKey) = issued["b1"].state
    /\ GetCookie(jar["b1"], now, VerifierCookieKey) = issued["b1"].verifier

\* the ids of the payments in a list of poll
IdsOf(list) == {Field(list[a], "id") : a \in DOMAIN list}

\* no id is in the list twice
NoRepeat(list) ==
    \A a, b \in DOMAIN list : a # b => Field(list[a], "id") # Field(list[b], "id")

\* the ids poll record w returns
Returned(w) == IdsOf(w.successes) \cup IdsOf(w.failures)

\* C39: in every step of a poll, successes and failures are disjoint and hold
\* no id twice; the keys it visits are those of its key scan, and an id is
\* pushed only for the key it has just read from that scan; the step adds and
\* rewrites no ledger entry and removes at most the entry it pushed, which is
\* gone once its DEL was answered without error; a poll that returns with no
\* error leaves none of the entries it returns in the ledger.
C39_PollOnlyRemoves ==
    [][\A i \in Pollers :
          LET w == Poll(i)
              v == abacate'.polls[i]
          IN  PollStepOf(i) =>
                /\ IdsOf(v.successes) \cap IdsOf(v.failures) = {}
                /\ NoRepeat(v.successes) /\ NoRepeat(v.failures)
                /\ (w.pc = "idle" /\ ~v.raised) =>
                      v.keys = ScanKeys(store) /\ Returned(v) = {}
                /\ w.pc # "idle" =>
                      /\ v.keys \subseteq w.keys
                      /\ v.key # NoToken => v.key \in w.keys \cup {w.key}
                /\ \A p \in Returned(v) \ Returned(w) :
                      /\ w.pc = "check" /\ v.pc = "del"
                      /\ LedgerKeyOf(p) = w.key /\ v.key = w.key
                /\ \A k \in DOMAIN store' : k \in DOMAIN store /\ store'[k] = store[k]
                /\ \A k \in DOMAIN store \ DOMAIN store' :
                      w.pc = "del" /\ k = w.key /\ k[2] \in Returned(w)
                /\ (w.pc = "del" /\ v.logged = w.logged) => w.key \notin DOMAIN store'
                /\ (v.pc = "idle" /\ v.logged = 0 /\ ~v.raised) =>
                      \A p \in Returned(v) : LedgerKeyOf(p) \notin DOMAIN store']_vars

\* a poll has returned one payment in successes and another in failures, with
\* no error, and the ledger is what it was less those two entries
C39_Witness ==
    /\ Poll("p1").pc = "idle" /\ Poll("p1").logged = 0
    /\ Len(Poll("p1").successes) = 1 /\ Len(Poll("p1").failures) = 1
    /\ Returned(Poll("p1")) = audit.recorded
    /\ ScanKeys(store) = {}

(* ------------------------------ notifier ------------------------------- *)

\* a handler calls services.notifications.notify
NotifyCall(path, data, ok) ==
    /\ notifier.calls < MaxNotes
    /\ notifier' = Notify(notifier, path, data, ok)
    /\ UNCHANGED <<now, ticks, store, hist, loggedOut, payments, abacate, audit, req,
                   env, jar, issued, uuids, wire, resp, exch>>

\* the 'ready' event of the Discord client
DiscordReady ==
    /\ notifier.discord = "connecting"
    /\ notifier' = [notifier EXCEPT !.discord = "ready"]
    /\ UNCHANGED <<now, ticks, store, hist, loggedOut, payments, abacate, audit, req,
                   env, jar, issued, uuids, wire, resp, exch>>

\* the Notifier is constructed without a Discord channel or with one
InitNotify ==
    \E d \in {"none", "connecting"} : InitAs(FullEnv, [NoNotifier EXCEPT !.discord = d])

NextNotify ==
    \/ \E path \in MessagePaths, data \in NoteData, ok \in BOOLEAN : NotifyCall(path, data, ok)
    \/ DiscordReady

SpecNotify == InitNotify /\ [][NextNotify]_vars

\* C40: a notify call for a path of the messages table does not raise, builds
\* the message of that path from the data, hands it to sendMessage when the
\* Notifier has a Discord channel, and writes it to the console when it has
\* none.
C40_NotifyBuildsAndDispatches ==
    notifier.calls > 0 =>
        LET o == notifier.out
        IN  /\ o.path \in MessagePaths
            /\ ~o.raised
            /\ o.message = Built(Creator(o.path), o.data)
            /\ o.channel # "none" => o.dispatched
            /\ o.channel = "none" =>
                  notifier.console[Len(notifier.console)] = <<"log", "[NOTIFICATION]">>
====
